---- MODULE Spec2Model ----
(***************************************************************************)
(* Checkout / order orchestration of SupermarketAppVMC: pricing, the four  *)
(* payment rails (card, PayPal, Stripe, NETS), order persistence with its  *)
(* post-creation side effects, the stock, loyalty and refund-credit        *)
(* ledgers, and refund resolution.                                         *)
(*                                                                         *)
(* Money is counted in cents; Number(x.toFixed(2)) is rounding to a whole  *)
(* number of cents.  One loyalty point is worth 10 cents.  Time is counted *)
(* in milliseconds, as Date.now() does.  Every database callback is one    *)
(* atomic step; requests interleave between their callbacks.               *)
(***************************************************************************)
EXTENDS Integers, Sequences, FiniteSets, TLC

\* ------------------------------------------------------------------ bounds
MaxStock == 2        \* largest initial stock of a product
MaxQty == 2          \* largest quantity of one cart line
MaxOrders == 2       \* order ids handed out by the orders table
MaxPoints == 6       \* largest initial loyalty balance

Users == {1, 2, 3}
Products == {1, 2}
Req == {1, 2}        \* request slots: HTTP requests in flight at once
Credits == {1}       \* refund credit ids
ExtIds == {1, 2}     \* identifiers issued by the payment providers
Reports == {1, 2}     \* refund report ids

\* unit price of a product in cents (products.price)
Price(p) == IF p = 1 THEN 101 ELSE 250

\* req.session.user.role: user 3 is the administrator
Role(u) == IF u = 3 THEN "admin" ELSE "user"

Max(a, b) == IF a >= b THEN a ELSE b
Min(a, b) == IF a <= b THEN a ELSE b

VARIABLES
  now,          \* Date.now()
  stock,        \* products.quantity, by product id
  cart,         \* cart_items: quantity by user and product (0 = no row)
  orders,       \* orders table: set of rows
  orderItems,   \* order_items table: set of rows
  nextOrderId,  \* AUTO_INCREMENT of orders
  tx,           \* the open transaction of db: owner request and its order id
  members,      \* memberships: points by user, NoRow when the user has no row
  credits,      \* refund_credits by id
  reports,      \* refund_requests by id
  session,      \* req.session by user
  nextExt,      \* next identifier a payment provider issues
  reqs,         \* requests in flight, by slot
  ledgerLog,    \* results the ledger calls reported to their callers
  calc          \* a pure function under evaluation: its arguments and result

vars == <<now, stock, cart, orders, orderItems, nextOrderId, tx, members,
          credits, reports, session, nextExt, reqs, ledgerLog, calc>>

NoRow == -1000

\* ------------------------------------------------------- pricing (pure)
RECURSIVE SumLines(_, _)
SumLines(c, ps) ==
  IF ps = {} THEN 0
  ELSE LET p == CHOOSE x \in ps : TRUE
       IN  Price(p) * c[p] + SumLines(c, ps \ {p})

\* cartTotal of mapCartItems: the cart query selects "0 AS discount", so a
\* line total is price * quantity
mapCartItems(c) == SumLines(c, Products)

\* the discounted total without the discount
DiscountedTotal_NoDiscount(cartTotal, pct) == cartTotal

\* Number(x.toFixed(2)) of cartTotal * (1 - pct/100), in cents
DiscountedTotal(cartTotal, pct) == (cartTotal * (100 - pct) + 50) \div 100

\* computeLoyaltyUsage without the point held back: the cap is
\* floor(subtotal * 10)
computeLoyaltyUsage_NoReserve(requested, subtotal) ==
  IF requested <= 0 \/ subtotal <= 0 THEN 0
  ELSE Min(requested, Max(0, subtotal \div 10))

\* pointsUsed of computeLoyaltyUsage; requested = 0 stands for no redemption
computeLoyaltyUsage(requested, subtotal) ==
  IF requested <= 0 \/ subtotal <= 0 THEN 0
  ELSE Min(requested, Max(0, (subtotal \div 10) - 1))

EmptyCart == [p \in Products |-> 0]
CartEmpty(c) == \A p \in Products : c[p] = 0

NoPay == [total |-> 0, pct |-> 0, items |-> EmptyCart, points |-> 0,
          creditId |-> 0, creditAmt |-> 0, method |-> "none"]

\* rows of orders that are visible outside the open transaction
CommittedOrders == {o \in orders : o.id # tx.orderId}

getOrdersByUser(u) == {o \in CommittedOrders : o.userId = u}

\* RefundCreditModel.getLatestAvailableByUser: 0 when there is none
getLatestAvailableByUser(u) ==
  LET av == {c \in Credits : credits[c].userId = u /\ credits[c].status = "available"}
  IN  IF av = {} THEN 0 ELSE CHOOSE c \in av : \A d \in av : d <= c

\* computeCheckoutState with the credit capped by the discounted total
\* instead of by what is left after the loyalty discount
computeCheckoutState_CreditOnFullTotal(u, loyalty) ==
  LET cartTotal == mapCartItems(cart[u])
      pct == IF getOrdersByUser(u) = {} THEN 25 ELSE 0
      discountedTotal == DiscountedTotal(cartTotal, pct)
      pointsUsed == computeLoyaltyUsage(loyalty, discountedTotal)
      maxAfterLoyalty == Max(0, discountedTotal - pointsUsed * 10)
      cid == getLatestAvailableByUser(u)
      availableCredit == IF cid = 0 THEN 0 ELSE credits[cid].amount
      refundCreditAmount == Min(discountedTotal, Max(0, availableCredit))
  IN  [cartTotal |-> cartTotal, discountedTotal |-> discountedTotal,
       pay |-> [total |-> Max(0, maxAfterLoyalty - refundCreditAmount),
                pct |-> pct, items |-> cart[u], points |-> pointsUsed,
                creditId |-> cid, creditAmt |-> refundCreditAmount,
                method |-> "CARD"]]

\* computeCheckoutState of CartController: the checkout computation
computeCheckoutState(u, loyalty) ==
  LET cartTotal == mapCartItems(cart[u])
      pct == IF getOrdersByUser(u) = {} THEN 25 ELSE 0
      discountedTotal == DiscountedTotal(cartTotal, pct)
      pointsUsed == computeLoyaltyUsage(loyalty, discountedTotal)
      maxAfterLoyalty == Max(0, discountedTotal - pointsUsed * 10)
      cid == getLatestAvailableByUser(u)
      availableCredit == IF cid = 0 THEN 0 ELSE credits[cid].amount
      refundCreditAmount == Min(maxAfterLoyalty, Max(0, availableCredit))
  IN  [cartTotal |-> cartTotal, discountedTotal |-> discountedTotal,
       pay |-> [total |-> Max(0, maxAfterLoyalty - refundCreditAmount),
                pct |-> pct, items |-> cart[u], points |-> pointsUsed,
                creditId |-> cid, creditAmt |-> refundCreditAmount,
                method |-> "CARD"]]

\* computeTotals subtracting the whole available credit, without clamps
computeTotals_Unclamped(u) ==
  LET cartTotal == mapCartItems(cart[u])
      pct == IF getOrdersByUser(u) = {} THEN 25 ELSE 0
      discountedTotal == IF pct > 0 THEN DiscountedTotal(cartTotal, 25) ELSE cartTotal
      cid == getLatestAvailableByUser(u)
      availableCredit == IF cid = 0 THEN 0 ELSE credits[cid].amount
  IN  [cartTotal |-> cartTotal, discountedTotal |-> discountedTotal,
       pay |-> [total |-> discountedTotal - availableCredit,
                pct |-> pct, items |-> cart[u], points |-> 0,
                creditId |-> cid, creditAmt |-> availableCredit,
                method |-> "NETS"]]

\* computeTotals of NetsController: no loyalty redemption
computeTotals(u) ==
  LET cartTotal == mapCartItems(cart[u])
      pct == IF getOrdersByUser(u) = {} THEN 25 ELSE 0
      discountedTotal == IF pct > 0 THEN DiscountedTotal(cartTotal, 25) ELSE cartTotal
      cid == getLatestAvailableByUser(u)
      availableCredit == IF cid = 0 THEN 0 ELSE credits[cid].amount
      refundCreditAmount == Min(discountedTotal, Max(0, availableCredit))
  IN  [cartTotal |-> cartTotal, discountedTotal |-> discountedTotal,
       pay |-> [total |-> Max(0, discountedTotal - refundCreditAmount),
                pct |-> pct, items |-> cart[u], points |-> 0,
                creditId |-> cid, creditAmt |-> refundCreditAmount,
                method |-> "NETS"]]

\* ------------------------------------------------- ledgers (single rows)
\* decrementQuantity without the floor at zero
decrementQuantity_NoFloor(quantity, amount) == quantity - amount

\* ProductModel.decrementQuantity: quantity = GREATEST(quantity - ?, 0)
decrementQuantity(quantity, amount) == Max(quantity - amount, 0)

\* affectedRows of the decrement UPDATE: the WHERE clause is "id = ?" only,
\* so the product's row is matched whatever its quantity
decrementAffectedRows(quantity, amount) == 1

\* the per-line outcome decrementStockForOrder derives from the result:
\* a rejection only for a database error or for affectedRows = 0
decrementSignalsFailure(quantity, amount) ==
  decrementAffectedRows(quantity, amount) = 0

\* markUsed without the "AND status = 'available'" condition
markUsed_Unconditional(row, orderId) ==
  [row EXCEPT !.status = "used", !.usedOrderId = orderId]

\* RefundCreditModel.markUsed: UPDATE ... WHERE id = ? AND status = 'available'
markUsed(row, orderId) ==
  IF row.status = "available"
  THEN [row EXCEPT !.status = "used", !.usedOrderId = orderId]
  ELSE row

\* MembershipModel.addPoints: INSERT ... ON DUPLICATE KEY UPDATE
\* points = points + VALUES(points)
addPoints(points, delta) == IF points = NoRow THEN delta ELSE points + delta

deductionPoints_Unclamped(balance, pointsToDeduct) == pointsToDeduct

\* deductionPoints of persistOrder: Math.min(membership.points, pointsToDeduct)
deductionPoints(balance, pointsToDeduct) == Min(balance, pointsToDeduct)

\* ------------------------------------------------------------- requests
NoRep == [id |-> 0, target |-> "none", amount |-> 0, submitted |-> 0, note |-> FALSE,
          orderId |-> 0,
          orderStatus |-> "none", orderTotal |-> 0, userId |-> 0]

IdleReq == [kind |-> "idle", user |-> 0, pc |-> "idle", pay |-> NoPay,
            orderId |-> 0, stockTodo |-> {}, mem |-> "none", memDeduct |-> 0,
            cred |-> "none", rejected |-> FALSE, fin |-> FALSE,
            clear |-> "none", called |-> FALSE, ext |-> 0, status |-> "none",
            elapsed |-> 0, createdAt |-> 0, at |-> 0, rep |-> NoRep,
            resp |-> "none"]

\* no pure function is under evaluation
NoCalc == [fn |-> "none", requested |-> 0, subtotal |-> 0, done |-> FALSE,
           pointsUsed |-> 0, discountAmount |-> 0]

NoPending == [id |-> 0, pay |-> NoPay, createdAt |-> 0]
NoSession == [paypal |-> NoPending, stripe |-> NoPending, nets |-> NoPending,
              loyalty |-> 0]
NoTx == [owner |-> 0, orderId |-> 0]

\* a slot is taken only after the slots before it
Free(r) == reqs[r].kind = "idle" /\ \A q \in Req : q < r => reqs[q].kind # "idle"

PersistKinds == {"card", "paypal", "stripe"}

\* the three concurrent tasks of finalize have all resolved
TasksResolved(q) ==
  q.stockTodo = {} /\ q.mem \in {"none", "done"} /\ q.cred \in {"none", "done"}

\* Promise.all(...).catch(...).finally(...) of persistOrder: runs once, as soon
\* as one task rejects or all have resolved; it issues the cart clear and
\* calls back with success
FinishPersist(q) ==
  IF ~q.fin /\ (q.rejected \/ TasksResolved(q))
  THEN [q EXCEPT !.fin = TRUE, !.clear = "todo", !.resp = "ok"]
  ELSE q

\* Promise.all(decTasks.concat([creditTask])).then(...).catch(...) of
\* NetsController.confirmPayment
FinishNets(q) ==
  IF q.fin THEN q
  ELSE IF q.rejected THEN [q EXCEPT !.fin = TRUE, !.resp = "failed500"]
  ELSE IF q.clear = "none" /\ q.stockTodo = {} /\ q.cred \in {"none", "done"}
       THEN IF q.pay.total \div 10 <= 0
            THEN [q EXCEPT !.clear = "todo", !.fin = TRUE, !.resp = "ok"]
            ELSE [q EXCEPT !.clear = "todo", !.mem = "read"]
  ELSE IF q.clear # "none" /\ q.mem = "done"
       THEN [q EXCEPT !.fin = TRUE, !.resp = "ok"]
  ELSE q

Finish(q) == IF q.kind = "nets" THEN FinishNets(q) ELSE FinishPersist(q)

\* what the handler's completion does to the session: the pending checkout of
\* the rail and the loyalty redemption are deleted
SessionAfter(q, s) ==
  IF ~q.fin THEN s
  ELSE IF q.kind = "paypal" THEN [s EXCEPT !.paypal = NoPending, !.loyalty = 0]
  ELSE IF q.kind = "stripe" THEN [s EXCEPT !.stripe = NoPending, !.loyalty = 0]
  ELSE IF q.kind = "card" THEN [s EXCEPT !.loyalty = 0]
  ELSE s

\* NETS deletes its pending transaction in the then-branch only
SessionAfterNets(q, s) ==
  IF q.kind = "nets" /\ q.clear # "none" THEN [s EXCEPT !.nets = NoPending] ELSE s

\* one task callback of request r has produced request record q: the
\* completion logic of the handler runs in the same turn of the event loop
Settle(r, q) ==
  LET f == Finish(q)
      u == q.user
  IN  /\ reqs' = [reqs EXCEPT ![r] = f]
      /\ session' = IF f.kind \in PersistKinds /\ f.fin /\ ~reqs[r].fin
                    THEN [session EXCEPT ![u] = SessionAfter(f, session[u])]
                    ELSE IF f.kind = "nets" /\ f.clear # "none" /\ reqs[r].clear = "none"
                    THEN [session EXCEPT ![u] = SessionAfterNets(f, session[u])]
                    ELSE session

\* ledger call results, kept for the properties about what a call reported
LogEntry(op, r, key, before, amount, ok) ==
  [op |-> op, req |-> r, key |-> key, before |-> before, amount |-> amount, ok |-> ok]

\* ------------------------------------------------- OrderModel.createOrder
\* the row createOrder would write were the payload's status left out
OrderRow_DefaultStatus(r, id) ==
  [id |-> id, userId |-> reqs[r].user, totalAmount |-> reqs[r].pay.total,
   discountPercent |-> reqs[r].pay.pct, status |-> "pending",
   paymentMethod |-> reqs[r].pay.method,
   creditId |-> IF reqs[r].pay.creditAmt > 0 THEN reqs[r].pay.creditId ELSE 0,
   points |-> reqs[r].pay.points, ext |-> reqs[r].ext,
   provider |-> reqs[r].status, elapsed |-> reqs[r].elapsed]

\* the orders row of createOrder: the payload of persistOrder and of the NETS
\* confirmation has status 'processing'
OrderRow(r, id) ==
  [id |-> id, userId |-> reqs[r].user, totalAmount |-> reqs[r].pay.total,
   discountPercent |-> reqs[r].pay.pct, status |-> "processing",
   paymentMethod |-> reqs[r].pay.method,
   \* not columns: what the checkout that created the row applied
   creditId |-> IF reqs[r].pay.creditAmt > 0 THEN reqs[r].pay.creditId ELSE 0,
   points |-> reqs[r].pay.points, ext |-> reqs[r].ext,
   provider |-> reqs[r].status, elapsed |-> reqs[r].elapsed]

ItemRows(r, id) ==
  {[orderId |-> id, productId |-> p, quantity |-> reqs[r].pay.items[p], price |-> Price(p)] :
     p \in {x \in Products : reqs[r].pay.items[x] > 0}}

\* what finalize (persistOrder) or the createOrder callback (NETS) starts
StartTasks(q) ==
  LET grant == q.pay.total \div 10
      base == [q EXCEPT !.pc = "effects",
                        !.stockTodo = {p \in Products : q.pay.items[p] > 0},
                        !.cred = IF q.pay.creditId # 0 /\ q.pay.creditAmt > 0 THEN "todo" ELSE "none"]
  IN  IF q.kind = "nets" THEN base
      ELSE [base EXCEPT !.mem = IF grant = 0 /\ q.pay.points = 0 THEN "none" ELSE "read"]

\* the response of each handler when createOrder calls back with an error
CreateFailedResp(kind) ==
  IF kind = "card" THEN "unable_to_place_order"
  ELSE IF kind = "nets" THEN "failed500"
  ELSE "captured_but_order_failed"

\* an error path that calls back without db.rollback: the rows written so
\* far stay
Rollback_NoUndo(r) ==
  /\ orders' = orders
  /\ orderItems' = orderItems
  /\ tx' = IF tx.owner = r THEN NoTx ELSE tx
  /\ reqs' = [reqs EXCEPT ![r].pc = "done", ![r].fin = TRUE,
                          ![r].resp = CreateFailedResp(reqs[r].kind)]
  /\ session' = session

\* db.rollback(() => callback(err)): the rows written by the transaction are
\* gone, the handler answers; PayPal and Stripe delete their pending checkout
Rollback(r) ==
  /\ orders' = {o \in orders : o.id # tx.orderId \/ tx.owner # r}
  /\ orderItems' = {i \in orderItems : i.orderId # tx.orderId \/ tx.owner # r}
  /\ tx' = IF tx.owner = r THEN NoTx ELSE tx
  /\ reqs' = [reqs EXCEPT ![r].pc = "done", ![r].fin = TRUE,
                          ![r].resp = CreateFailedResp(reqs[r].kind)]
  /\ session' = [session EXCEPT ![reqs[r].user] =
                   IF reqs[r].kind = "paypal" THEN [@ EXCEPT !.paypal = NoPending]
                   ELSE IF reqs[r].kind = "stripe" THEN [@ EXCEPT !.stripe = NoPending]
                   ELSE @]

\* beginTransaction, then INSERT INTO orders
InsertOrder(r) ==
  /\ reqs[r].pc = "insertOrder"
  /\ tx.owner = 0
  /\ nextOrderId <= MaxOrders
  /\ orders' = orders \cup {OrderRow(r, nextOrderId)}
  /\ tx' = [owner |-> r, orderId |-> nextOrderId]
  /\ nextOrderId' = nextOrderId + 1
  /\ reqs' = [reqs EXCEPT ![r].orderId = nextOrderId,
                          ![r].pc = IF CartEmpty(reqs[r].pay.items) THEN "commit" ELSE "insertItems"]
  /\ UNCHANGED <<now, stock, cart, orderItems, members, credits, reports, session, nextExt, ledgerLog, calc>>
\* beginTransaction or the INSERT INTO orders fails
InsertOrderFail(r) ==
  /\ reqs[r].pc = "insertOrder"
  /\ tx.owner = 0
  /\ Rollback(r)
  /\ UNCHANGED <<now, stock, cart, nextOrderId, members, credits, reports, nextExt, ledgerLog, calc>>
\* the items insert starting the side effects itself, before db.commit
InsertItems_EarlyEffects(r) ==
  /\ reqs[r].pc = "insertItems"
  /\ tx.owner = r
  /\ orderItems' = orderItems \cup ItemRows(r, tx.orderId)
  /\ Settle(r, StartTasks(reqs[r]))
  /\ UNCHANGED <<now, stock, cart, orders, nextOrderId, tx, members, credits, reports, nextExt, ledgerLog, calc>>
\* INSERT INTO order_items ... VALUES ?
InsertItems(r) ==
  /\ reqs[r].pc = "insertItems"
  /\ tx.owner = r
  /\ orderItems' = orderItems \cup ItemRows(r, tx.orderId)
  /\ reqs' = [reqs EXCEPT ![r].pc = "commit"]
  /\ UNCHANGED <<now, stock, cart, orders, nextOrderId, tx, members, credits, reports, session, nextExt, ledgerLog, calc>>
InsertItemsFail(r) ==
  /\ reqs[r].pc = "insertItems"
  /\ tx.owner = r
  /\ Rollback(r)
  /\ UNCHANGED <<now, stock, cart, nextOrderId, members, credits, reports, nextExt, ledgerLog, calc>>
\* db.commit succeeds: createOrder calls back with the order id
Commit(r) ==
  /\ reqs[r].pc = "commit"
  /\ tx.owner = r
  /\ tx' = NoTx
  /\ Settle(r, StartTasks(reqs[r]))
  /\ UNCHANGED <<now, stock, cart, orders, orderItems, nextOrderId, members, credits, reports, nextExt, ledgerLog, calc>>
CommitFail(r) ==
  /\ reqs[r].pc = "commit"
  /\ tx.owner = r
  /\ Rollback(r)
  /\ UNCHANGED <<now, stock, cart, nextOrderId, members, credits, reports, nextExt, ledgerLog, calc>>
\* ------------------------------------------ post-creation side effects
PointsToGrant(q) == q.pay.total \div 10

\* ProductModel.decrementQuantity for one order line and its callback in
\* decrementStockForOrder (card, PayPal, Stripe) or in decTasks (NETS, which
\* looks at the error only)
StockTask(r, p) ==
  /\ reqs[r].pc = "effects"
  /\ p \in reqs[r].stockTodo
  /\ LET amount == reqs[r].pay.items[p]
         failed == reqs[r].kind # "nets" /\ decrementSignalsFailure(stock[p], amount)
     IN  /\ stock' = [stock EXCEPT ![p] = decrementQuantity(stock[p], amount)]
         /\ ledgerLog' = ledgerLog \cup {LogEntry("dec", r, p, stock[p], amount, ~failed)}
         /\ Settle(r, [reqs[r] EXCEPT !.stockTodo = @ \ {p}, !.rejected = @ \/ failed])
  /\ UNCHANGED <<now, cart, orders, orderItems, nextOrderId, tx, members, credits, reports, nextExt, calc>>
\* MembershipModel.getByUser and its callback: the queue of point operations
\* is built from the balance read here
MemRead(r) ==
  /\ reqs[r].pc = "effects"
  /\ reqs[r].mem = "read"
  /\ LET q == reqs[r]
         m == members[q.user]
         d == IF q.kind = "nets" \/ q.pay.points <= 0 \/ m = NoRow THEN 0
              ELSE deductionPoints(m, q.pay.points)
         next == IF m = NoRow THEN "done"
                 ELSE IF d > 0 THEN "deduct"
                 ELSE IF PointsToGrant(q) > 0 THEN "grant"
                 ELSE "done"
     IN  /\ Settle(r, [q EXCEPT !.mem = next, !.memDeduct = d])
         /\ ledgerLog' = ledgerLog \cup {LogEntry("getByUser", r, q.user, m, 0, TRUE)}
  /\ UNCHANGED <<now, stock, cart, orders, orderItems, nextOrderId, tx, members, credits, reports, nextExt, calc>>
\* MembershipModel.addPoints(userId, -deductionPoints)
MemDeduct(r) ==
  /\ reqs[r].pc = "effects"
  /\ reqs[r].mem = "deduct"
  /\ LET q == reqs[r]
     IN  /\ members' = [members EXCEPT ![q.user] = addPoints(@, 0 - q.memDeduct)]
         /\ Settle(r, [q EXCEPT !.mem = IF PointsToGrant(q) > 0 THEN "grant" ELSE "done"])
  /\ UNCHANGED <<now, stock, cart, orders, orderItems, nextOrderId, tx, credits, reports, nextExt, ledgerLog, calc>>
\* MembershipModel.addPoints(userId, pointsToGrant)
MemGrant(r) ==
  /\ reqs[r].pc = "effects"
  /\ reqs[r].mem = "grant"
  /\ LET q == reqs[r]
     IN  /\ members' = [members EXCEPT ![q.user] = addPoints(@, PointsToGrant(q))]
         /\ ledgerLog' = ledgerLog \cup
              {LogEntry("grant", r, q.user, members[q.user], PointsToGrant(q), TRUE)}
         /\ Settle(r, [q EXCEPT !.mem = "done"])
  /\ UNCHANGED <<now, stock, cart, orders, orderItems, nextOrderId, tx, credits, reports, nextExt, calc>>
\* RefundCreditModel.markUsed(refundCreditId, orderId)
CreditTask(r) ==
  /\ reqs[r].pc = "effects"
  /\ reqs[r].cred = "todo"
  /\ LET q == reqs[r]
         c == q.pay.creditId
         row == markUsed(credits[c], q.orderId)
     IN  /\ credits' = [credits EXCEPT ![c] = row]
         /\ ledgerLog' = ledgerLog \cup
              {LogEntry("markUsed", r, c, 0, q.orderId, row # credits[c])}
         /\ Settle(r, [q EXCEPT !.cred = "done"])
  /\ UNCHANGED <<now, stock, cart, orders, orderItems, nextOrderId, tx, members, reports, nextExt, calc>>
\* ProductModel.decrementQuantity calls back with a database error: the line's
\* promise rejects and the stock is as it was
StockTaskFail(r, p) ==
  /\ reqs[r].pc = "effects"
  /\ p \in reqs[r].stockTodo
  /\ ledgerLog' = ledgerLog \cup
       {LogEntry("decErr", r, p, stock[p], reqs[r].pay.items[p], FALSE)}
  /\ Settle(r, [reqs[r] EXCEPT !.stockTodo = @ \ {p}, !.rejected = TRUE])
  /\ UNCHANGED <<now, stock, cart, orders, orderItems, nextOrderId, tx, members, credits, reports, nextExt, calc>>
\* MembershipModel.getByUser calls back with an error: logged, the task
\* resolves (NETS: finish) without any change of points
MemReadFail(r) ==
  /\ reqs[r].pc = "effects"
  /\ reqs[r].mem = "read"
  /\ ledgerLog' = ledgerLog \cup
       {LogEntry("memReadErr", r, reqs[r].user, members[reqs[r].user], 0, FALSE)}
  /\ Settle(r, [reqs[r] EXCEPT !.mem = "done"])
  /\ UNCHANGED <<now, stock, cart, orders, orderItems, nextOrderId, tx, members, credits, reports, nextExt, calc>>
\* addPoints(userId, pointsToGrant) calls back with an error: logged
MemGrantFail(r) ==
  /\ reqs[r].pc = "effects"
  /\ reqs[r].mem = "grant"
  /\ ledgerLog' = ledgerLog \cup
       {LogEntry("grantErr", r, reqs[r].user, members[reqs[r].user], PointsToGrant(reqs[r]), FALSE)}
  /\ Settle(r, [reqs[r] EXCEPT !.mem = "done"])
  /\ UNCHANGED <<now, stock, cart, orders, orderItems, nextOrderId, tx, members, credits, reports, nextExt, calc>>
\* RefundCreditModel.markUsed calls back with an error: logged, the task
\* resolves
CreditTaskFail(r) ==
  /\ reqs[r].pc = "effects"
  /\ reqs[r].cred = "todo"
  /\ ledgerLog' = ledgerLog \cup
       {LogEntry("markUsedErr", r, reqs[r].pay.creditId, 0, reqs[r].orderId, FALSE)}
  /\ Settle(r, [reqs[r] EXCEPT !.cred = "done"])
  /\ UNCHANGED <<now, stock, cart, orders, orderItems, nextOrderId, tx, members, credits, reports, nextExt, calc>>
\* CartModel.clearCartByUser
clearCartByUser(r) ==
  /\ reqs[r].clear = "todo"
  /\ cart' = [cart EXCEPT ![reqs[r].user] = EmptyCart]
  /\ reqs' = [reqs EXCEPT ![r].clear = "done"]
  /\ UNCHANGED <<now, stock, orders, orderItems, nextOrderId, tx, members, credits, reports, session, nextExt, ledgerLog, calc>>
\* ------------------------------------------------------------ card rail
Answer(r, kind, u, resp) ==
  reqs' = [reqs EXCEPT ![r] = [IdleReq EXCEPT !.kind = kind, !.user = u, !.pc = "done",
                                              !.fin = TRUE, !.resp = resp]]

\* CartController.processCheckout up to the call of persistOrder; valid is
\* the outcome of validateContactDetails and validateCardDetails
processCheckout(r, u, valid) ==
  /\ Free(r)
  /\ LET co == computeCheckoutState(u, session[u].loyalty)
     IN  IF ~valid THEN Answer(r, "card", u, "invalid")
         ELSE IF CartEmpty(cart[u]) THEN Answer(r, "card", u, "cart_empty")
         ELSE reqs' = [reqs EXCEPT ![r] = [IdleReq EXCEPT !.kind = "card", !.user = u,
                                              !.pc = "insertOrder", !.pay = co.pay]]
  /\ UNCHANGED <<now, stock, cart, orders, orderItems, nextOrderId, tx, members, credits, reports, session, nextExt, ledgerLog, calc>>
\* CartController.redeemLoyalty with action "apply" and a request that passes
\* every check: the redemption is stored in the session (a rejected request
\* changes nothing)
redeemLoyalty(u, requestedPoints) ==
  /\ requestedPoints > 0
  /\ members[u] # NoRow
  /\ Max(0, members[u]) > 0
  /\ requestedPoints <= Max(0, members[u])
  /\ ~CartEmpty(cart[u])
  /\ LET maxPointsForTotal ==
           Max(0, (computeCheckoutState(u, 0).discountedTotal \div 10) - 1)
     IN  maxPointsForTotal > 0 /\ requestedPoints <= maxPointsForTotal
  /\ session' = [session EXCEPT ![u].loyalty = requestedPoints]
  /\ UNCHANGED <<now, stock, cart, orders, orderItems, nextOrderId, tx, members, credits, reports, nextExt, reqs, ledgerLog, calc>>
\* ------------------------------------------------------- PayPal, Stripe
ttlMs == 1200000

PaypalStatuses == {"COMPLETED", "DECLINED", "nostatus", "error"}
StripeStatuses == {"succeeded", "processing", "unknown", "error"}

\* CartController.createPaypalOrder with valid contact details, a cart that
\* is not empty and a PayPal order created: the pending checkout is stored
\* (every other outcome answers an error and changes nothing)
createPaypalOrder(u) ==
  /\ nextExt \in ExtIds
  /\ ~CartEmpty(cart[u])
  /\ LET co == computeCheckoutState(u, session[u].loyalty)
     IN  session' = [session EXCEPT ![u].paypal =
                       [id |-> nextExt, pay |-> [co.pay EXCEPT !.method = "PAYPAL"],
                        createdAt |-> now]]
  /\ nextExt' = nextExt + 1
  /\ UNCHANGED <<now, stock, cart, orders, orderItems, nextOrderId, tx, members, credits, reports, reqs, ledgerLog, calc>>
\* CartController.createStripePaymentIntent, likewise
createStripePaymentIntent(u) ==
  /\ nextExt \in ExtIds
  /\ ~CartEmpty(cart[u])
  /\ LET co == computeCheckoutState(u, session[u].loyalty)
     IN  session' = [session EXCEPT ![u].stripe =
                       [id |-> nextExt, pay |-> [co.pay EXCEPT !.method = "STRIPE"],
                        createdAt |-> now]]
  /\ nextExt' = nextExt + 1
  /\ UNCHANGED <<now, stock, cart, orders, orderItems, nextOrderId, tx, members, credits, reports, reqs, ledgerLog, calc>>
\* PendingCheck without the 20-minute expiry
PendingCheck_NoExpiry(pending, supplied, t) ==
  IF supplied = 0 THEN "missing_id"
  ELSE IF pending = NoPending THEN "no_pending"
  ELSE IF pending.id # 0 /\ pending.id # supplied THEN "mismatch"
  ELSE "pass"

\* the checks a confirm request makes on the pending checkout before it
\* contacts the provider; "pass" when none rejects
PendingCheck(pending, supplied, t) ==
  IF supplied = 0 THEN "missing_id"
  ELSE IF pending = NoPending THEN "no_pending"
  ELSE IF pending.id # 0 /\ pending.id # supplied THEN "mismatch"
  ELSE IF pending.createdAt # 0 /\ t - pending.createdAt > ttlMs THEN "expired"
  ELSE "pass"

\* the start of a confirm request of rail kind ("paypal" or "stripe") with the
\* identifier the client supplied (0 = none)
ConfirmStart(kind, r, u, supplied) ==
  /\ Free(r)
  /\ LET pending == IF kind = "paypal" THEN session[u].paypal ELSE session[u].stripe
         chk == PendingCheck(pending, supplied, now)
     IN  /\ reqs' = [reqs EXCEPT ![r] =
                       IF chk = "pass"
                       THEN [IdleReq EXCEPT !.kind = kind, !.user = u, !.pc = "provider",
                                            !.called = TRUE, !.pay = pending.pay,
                                            !.ext = supplied, !.createdAt = pending.createdAt]
                       ELSE [IdleReq EXCEPT !.kind = kind, !.user = u, !.pc = "done",
                                            !.fin = TRUE, !.ext = supplied, !.resp = chk,
                                            !.createdAt = pending.createdAt]]
         /\ session' = IF chk = "expired"
                       THEN IF kind = "paypal"
                            THEN [session EXCEPT ![u].paypal = NoPending]
                            ELSE [session EXCEPT ![u].stripe = NoPending]
                       ELSE session
  /\ UNCHANGED <<now, stock, cart, orders, orderItems, nextOrderId, tx, members, credits, reports, nextExt, ledgerLog, calc>>
\* CartController.capturePaypalOrder up to the call of PaypalService.captureOrder
capturePaypalOrder(r, u, orderID) == ConfirmStart("paypal", r, u, orderID)

\* CartController.confirmStripePayment up to StripeService.getPaymentIntentDetails
confirmStripePayment(r, u, paymentIntentId) == ConfirmStart("stripe", r, u, paymentIntentId)

\* capturePaypalOrder: does the handler go on to persistOrder for this capture
\* result?  captureStatus && captureStatus !== 'COMPLETED' answers an error
PaypalProceeds(st) == ~(st # "nostatus" /\ st # "COMPLETED")

\* confirmStripePayment: details.status !== 'succeeded' answers an error
StripeProceeds(st) == st = "succeeded"

ProviderAnswer(r, st, proceeds) ==
  /\ reqs[r].pc = "provider"
  /\ reqs' = [reqs EXCEPT ![r] =
                IF st = "error"
                THEN [@ EXCEPT !.pc = "done", !.fin = TRUE, !.status = st, !.resp = "provider_error"]
                ELSE IF ~proceeds
                THEN [@ EXCEPT !.pc = "done", !.fin = TRUE, !.status = st, !.resp = "not_completed"]
                ELSE [@ EXCEPT !.pc = "insertOrder", !.status = st]]
  /\ UNCHANGED <<now, stock, cart, orders, orderItems, nextOrderId, tx, members, credits, reports, session, nextExt, ledgerLog, calc>>
\* the answer of PaypalService.captureOrder arrives
paypalCaptureAnswer(r, st) ==
  /\ reqs[r].kind = "paypal"
  /\ ProviderAnswer(r, st, PaypalProceeds(st))

\* the answer of StripeService.getPaymentIntentDetails arrives
stripeDetailsAnswer(r, st) ==
  /\ reqs[r].kind = "stripe"
  /\ ProviderAnswer(r, st, StripeProceeds(st))

\* ----------------------------------------------------------------- NETS
optimisticAfterMs == 20000

RawStatuses == {"1", "0", "-1", "success", "pending", "failed", ""}
ResponseCodes == {"00", "09", ""}

IsNumeric(v) == v \in {"1", "0", "-1", ""}
NumberOf(v) == IF v = "1" THEN 1 ELSE IF v = "-1" THEN -1 ELSE 0

\* normalizeStatus of NetsController
normalizeStatus(rawStatus, responseCode) ==
  IF responseCode = "00" THEN "success"
  ELSE IF IsNumeric(rawStatus) /\ NumberOf(rawStatus) > 0 THEN "success"
  ELSE IF IsNumeric(rawStatus) /\ NumberOf(rawStatus) = 0 THEN "pending"
  ELSE IF rawStatus \in {"1", "success"} THEN "success"
  ELSE IF rawStatus \in {"0", "pending", ""} THEN "pending"
  ELSE "failed"

\* NetsRejects without the 20-second window: every non-success aborts
NetsRejects_NoWindow(status, elapsedMs) == status # "success"

\* the guard of confirmPayment that answers "not completed":
\* status !== 'success' && elapsedMs < optimisticAfterMs
NetsRejects(status, elapsedMs) == status # "success" /\ elapsedMs < optimisticAfterMs

\* NetsController.generateQrCode with a cart that is not empty and a QR code
\* issued: the pending transaction is stored
generateQrCode(u) ==
  /\ nextExt \in ExtIds
  /\ ~CartEmpty(cart[u])
  /\ session' = [session EXCEPT ![u].nets =
                   [id |-> nextExt, pay |-> computeTotals(u).pay, createdAt |-> now]]
  /\ nextExt' = nextExt + 1
  /\ UNCHANGED <<now, stock, cart, orders, orderItems, nextOrderId, tx, members, credits, reports, reqs, ledgerLog, calc>>
\* NetsController.confirmPayment up to the call of NetsService.getPaymentStatus
confirmPayment(r, u) ==
  /\ Free(r)
  /\ LET txn == session[u].nets
     IN  reqs' = [reqs EXCEPT ![r] =
                    IF txn.id = 0
                    THEN [IdleReq EXCEPT !.kind = "nets", !.user = u, !.pc = "done",
                                         !.fin = TRUE, !.resp = "no_pending"]
                    ELSE [IdleReq EXCEPT !.kind = "nets", !.user = u, !.pc = "provider",
                                         !.called = TRUE, !.ext = txn.id,
                                         !.createdAt = txn.createdAt, !.at = now]]
  /\ UNCHANGED <<now, stock, cart, orders, orderItems, nextOrderId, tx, members, credits, reports, session, nextExt, ledgerLog, calc>>
\* the status query answers: the rest of confirmPayment up to createOrder
netsStatusAnswer(r, rawStatus, responseCode) ==
  /\ reqs[r].kind = "nets"
  /\ reqs[r].pc = "provider"
  /\ LET q == reqs[r]
         status == normalizeStatus(rawStatus, responseCode)
         elapsedMs == IF q.createdAt # 0 THEN now - q.createdAt ELSE 0
         totals == computeTotals(q.user)
     IN  reqs' = [reqs EXCEPT ![r] =
                    IF NetsRejects(status, elapsedMs)
                    THEN [@ EXCEPT !.pc = "done", !.fin = TRUE, !.status = status,
                                   !.elapsed = elapsedMs, !.resp = "not_completed"]
                    ELSE IF CartEmpty(cart[q.user])
                    THEN [@ EXCEPT !.pc = "done", !.fin = TRUE, !.status = status,
                                   !.elapsed = elapsedMs, !.resp = "cart_empty"]
                    ELSE [@ EXCEPT !.pc = "insertOrder", !.status = status,
                                   !.elapsed = elapsedMs, !.pay = totals.pay]]
  /\ UNCHANGED <<now, stock, cart, orders, orderItems, nextOrderId, tx, members, credits, reports, session, nextExt, ledgerLog, calc>>
\* NetsService.getPaymentStatus throws
netsStatusError(r) ==
  /\ reqs[r].kind = "nets"
  /\ reqs[r].pc = "provider"
  /\ reqs' = [reqs EXCEPT ![r] = [@ EXCEPT !.pc = "done", !.fin = TRUE, !.status = "error",
                                            !.resp = "provider_error"]]
  /\ UNCHANGED <<now, stock, cart, orders, orderItems, nextOrderId, tx, members, credits, reports, session, nextExt, ledgerLog, calc>>
\* ------------------------------------------------------------ environment
Instants == {1, 20000, 20001, 1200001, 1200002}

\* request q has answered and has no database call outstanding
Over(q) == q.fin /\ TasksResolved(q) /\ q.clear # "todo"

\* no request is in flight
Quiet == \A r \in Req : reqs[r].kind = "idle" \/ Over(reqs[r])

\* no request is between createOrder and its last side effect, where the
\* clock is not read
ClockRead == \A r \in Req : reqs[r].kind = "idle" \/ reqs[r].pc = "provider" \/ Over(reqs[r])

\* time passes
Tick ==
  /\ ClockRead
  /\ \E t \in Instants : t > now /\ now' = t
  /\ UNCHANGED <<stock, cart, orders, orderItems, nextOrderId, tx, members, credits, reports, session, nextExt, reqs, ledgerLog, calc>>
\* ------------------------------------------- order status, refund reports
\* OrderModel.updateStatus: UPDATE orders SET status = ? WHERE id = ?
updateStatus(ords, id, status) ==
  {IF o.id = id THEN [o EXCEPT !.status = status] ELSE o : o \in ords}

\* the update POST /orders/:id/complete makes: whatever the current status
completeStatus(ords, id) == updateStatus(ords, id, "completed")

\* POST /orders/:id/complete by user u: the order exists and u is its owner
\* or an admin (any other request changes nothing)
completeOrder(u, id) ==
  /\ \E o \in CommittedOrders : o.id = id /\ (Role(u) = "admin" \/ o.userId = u)
  /\ orders' = completeStatus(orders, id)
  /\ UNCHANGED <<now, stock, cart, orderItems, nextOrderId, tx, members, credits, reports, session, nextExt, reqs, ledgerLog, calc>>
\* RefundController.submitReport by user u with a valid form: a pending report
\* is created for the order's owner
submitReport(u, orderId) ==
  /\ \E o \in CommittedOrders : o.id = orderId /\ (Role(u) = "admin" \/ o.userId = u)
  /\ \E id \in Reports :
       /\ reports[id].status = "none"
       /\ \A j \in Reports : j < id => reports[j].status # "none"
       /\ LET o == CHOOSE x \in CommittedOrders : x.id = orderId
          IN  reports' = [reports EXCEPT ![id] =
                [orderId |-> orderId, userId |-> o.userId, status |-> "pending",
                 refundAmount |-> 0]]
  /\ UNCHANGED <<now, stock, cart, orders, orderItems, nextOrderId, tx, members, credits, session, nextExt, reqs, ledgerLog, calc>>
ResolveTargets == {"pending", "approved_full", "approved_partial", "rejected", "bogus"}
NotANumber == -999

ResolveValid_NoNoteCheck(target, amount, hasNote) ==
  /\ target \in {"pending", "approved_full", "approved_partial", "rejected"}
  /\ ~(target \in {"approved_partial", "approved_full"} /\ (amount = NotANumber \/ amount < 0))

\* the validation at the head of resolveReport
ResolveValid(target, amount, hasNote) ==
  /\ target \in {"pending", "approved_full", "approved_partial", "rejected"}
  /\ ~(target = "rejected" /\ ~hasNote)
  /\ ~(target \in {"approved_partial", "approved_full"} /\ (amount = NotANumber \/ amount < 0))

\* the order status resolveReport derives from the target status and the
\* order status read with the report; "none" for no change
DerivedOrderStatus(target, orderStatus) ==
  IF target \in {"approved_full", "approved_partial"} /\ orderStatus # "completed"
  THEN "cancelled"
  ELSE IF target = "approved_full" THEN "refund_full"
  ELSE IF target = "approved_partial" THEN "refund_partial"
  ELSE IF target = "rejected" THEN "refund_rejected"
  ELSE "none"

RefundBonus_FlatPercent(target, orderTotal) ==
  LET basePoints == orderTotal \div 10
  IN  IF target \in {"approved_full", "approved_partial"} THEN (basePoints * 10) \div 100
      ELSE 0

\* bonus of resolveReport: Math.floor(Math.floor(orderTotal * 10) * percent)
RefundBonus(target, orderTotal) ==
  LET basePoints == orderTotal \div 10
  IN  IF target = "approved_full" THEN (basePoints * 25) \div 100
      ELSE IF target = "approved_partial" THEN (basePoints * 10) \div 100
      ELSE 0

\* RefundModel.getReportById: the report with the status and total of its
\* order as they are when it is read
getReportById(id) ==
  LET rp == reports[id]
      os == {o \in CommittedOrders : o.id = rp.orderId}
      o == CHOOSE x \in os : TRUE
  IN  [id |-> id, orderId |-> rp.orderId, userId |-> rp.userId,
       orderStatus |-> IF os = {} THEN "none" ELSE o.status,
       orderTotal |-> IF os = {} THEN 0 ELSE o.totalAmount]

\* RefundController.resolveReport (admin) up to the callback of getReportById
resolveReport(r, id, target, amount, hasNote) ==
  /\ Free(r)
  /\ LET rp == getReportById(id)
         targetAmount == IF target = "approved_full"
                         THEN (IF rp.orderTotal # 0 THEN rp.orderTotal
                               ELSE IF amount # 0 THEN amount ELSE 0)
                         ELSE amount
     IN  IF ~ResolveValid(target, amount, hasNote)
         THEN reqs' = [reqs EXCEPT ![r] =
                [IdleReq EXCEPT !.kind = "resolve", !.user = 3, !.pc = "done", !.fin = TRUE,
                   !.resp = "invalid",
                   !.rep = [NoRep EXCEPT !.id = id, !.target = target, !.submitted = amount,
                                         !.note = hasNote]]]
         ELSE IF reports[id].status = "none" THEN Answer(r, "resolve", 3, "not_found")
         ELSE reqs' = [reqs EXCEPT ![r] =
                [IdleReq EXCEPT !.kind = "resolve", !.user = 3, !.pc = "updateReport",
                   !.rep = [id |-> id, target |-> target, amount |-> targetAmount,
                            submitted |-> amount, note |-> hasNote, orderId |-> rp.orderId, orderStatus |-> rp.orderStatus,
                            orderTotal |-> rp.orderTotal, userId |-> rp.userId]]]
  /\ UNCHANGED <<now, stock, cart, orders, orderItems, nextOrderId, tx, members, credits, reports, session, nextExt, ledgerLog, calc>>
ResolveDone(q) == [q EXCEPT !.pc = "done", !.fin = TRUE, !.resp = "ok"]

\* RefundModel.updateReport and its callback
resolveUpdateReport(r) ==
  /\ reqs[r].kind = "resolve" /\ reqs[r].pc = "updateReport"
  /\ LET q == reqs[r]
     IN  /\ reports' = [reports EXCEPT ![q.rep.id].status = q.rep.target,
                                       ![q.rep.id].refundAmount = q.rep.amount]
         /\ reqs' = [reqs EXCEPT ![r] =
                       IF DerivedOrderStatus(q.rep.target, q.rep.orderStatus) = "none"
                       THEN ResolveDone(q)
                       ELSE [q EXCEPT !.pc = "updateStatus"]]
  /\ UNCHANGED <<now, stock, cart, orders, orderItems, nextOrderId, tx, members, credits, session, nextExt, ledgerLog, calc>>
\* OrderModel.updateStatus of resolveReport and its callback
resolveUpdateStatus(r) ==
  /\ reqs[r].kind = "resolve" /\ reqs[r].pc = "updateStatus"
  /\ LET q == reqs[r]
     IN  /\ orders' = updateStatus(orders, q.rep.orderId,
                                   DerivedOrderStatus(q.rep.target, q.rep.orderStatus))
         /\ reqs' = [reqs EXCEPT ![r] =
                       IF RefundBonus(q.rep.target, q.rep.orderTotal) <= 0
                       THEN ResolveDone(q)
                       ELSE [q EXCEPT !.pc = "bonusRead"]]
         /\ ledgerLog' = ledgerLog \cup {LogEntry("updateStatus", r, q.rep.orderId, 0, 0, TRUE)}
  /\ UNCHANGED <<now, stock, cart, orderItems, nextOrderId, tx, members, credits, reports, session, nextExt, calc>>
\* RefundModel.updateReport calls back with an error: the handler answers
\* 'Unable to update report.'
resolveUpdateReportFail(r) ==
  /\ reqs[r].kind = "resolve" /\ reqs[r].pc = "updateReport"
  /\ reqs' = [reqs EXCEPT ![r] = [@ EXCEPT !.pc = "done", !.fin = TRUE,
                                            !.resp = "unable_to_update_report"]]
  /\ UNCHANGED <<now, stock, cart, orders, orderItems, nextOrderId, tx, members, credits, reports, session, nextExt, ledgerLog, calc>>
\* a handler that answers when OrderModel.updateStatus fails
resolveUpdateStatusFail_Abort(r) ==
  /\ reqs[r].kind = "resolve" /\ reqs[r].pc = "updateStatus"
  /\ reqs' = [reqs EXCEPT ![r] = ResolveDone(reqs[r])]
  /\ ledgerLog' = ledgerLog \cup
       {LogEntry("updateStatus", r, reqs[r].rep.orderId, 0, 0, FALSE)}
  /\ UNCHANGED <<now, stock, cart, orders, orderItems, nextOrderId, tx, members, credits, reports, session, nextExt, calc>>
\* OrderModel.updateStatus calls back with an error: it is logged and the
\* callback goes on to the bonus
resolveUpdateStatusFail(r) ==
  /\ reqs[r].kind = "resolve" /\ reqs[r].pc = "updateStatus"
  /\ reqs' = [reqs EXCEPT ![r] =
                IF RefundBonus(reqs[r].rep.target, reqs[r].rep.orderTotal) <= 0
                THEN ResolveDone(reqs[r])
                ELSE [reqs[r] EXCEPT !.pc = "bonusRead"]]
  /\ ledgerLog' = ledgerLog \cup
       {LogEntry("updateStatus", r, reqs[r].rep.orderId, 0, 0, FALSE)}
  /\ UNCHANGED <<now, stock, cart, orders, orderItems, nextOrderId, tx, members, credits, reports, session, nextExt, calc>>
\* MembershipModel.getByUser of resolveReport and its callback
resolveBonusRead(r) ==
  /\ reqs[r].kind = "resolve" /\ reqs[r].pc = "bonusRead"
  /\ reqs' = [reqs EXCEPT ![r] =
                IF members[reqs[r].rep.userId] = NoRow
                THEN ResolveDone(reqs[r])
                ELSE [reqs[r] EXCEPT !.pc = "bonusAdd"]]
  /\ UNCHANGED <<now, stock, cart, orders, orderItems, nextOrderId, tx, members, credits, reports, session, nextExt, ledgerLog, calc>>
\* MembershipModel.addPoints(report.userId, bonus) and its callback
resolveBonusAdd(r) ==
  /\ reqs[r].kind = "resolve" /\ reqs[r].pc = "bonusAdd"
  /\ members' = [members EXCEPT ![reqs[r].rep.userId] =
                   addPoints(@, RefundBonus(reqs[r].rep.target, reqs[r].rep.orderTotal))]
  /\ reqs' = [reqs EXCEPT ![r] = ResolveDone(reqs[r])]
  /\ ledgerLog' = ledgerLog \cup
       {LogEntry("bonus", r, reqs[r].rep.userId, members[reqs[r].rep.userId],
                 RefundBonus(reqs[r].rep.target, reqs[r].rep.orderTotal), TRUE)}
  /\ UNCHANGED <<now, stock, cart, orders, orderItems, nextOrderId, tx, credits, reports, session, nextExt, calc>>
\* --------------------------------------------------------- initial states
NoCredit == [userId |-> 0, amount |-> 0, status |-> "none", usedOrderId |-> 0]
NoReport == [orderId |-> 0, userId |-> 0, status |-> "none", refundAmount |-> 0]

\* the state after start-up with the given tables: no order, nobody logged
\* in with a pending checkout, no request in flight
InitTables(st, ca, me, cr) ==
  /\ now = 1
  /\ stock = st
  /\ cart = ca
  /\ orders = {}
  /\ orderItems = {}
  /\ nextOrderId = 1
  /\ tx = NoTx
  /\ members = me
  /\ credits = cr
  /\ reports = [x \in Reports |-> NoReport]
  /\ session = [u \in Users |-> NoSession]
  /\ nextExt = 1
  /\ reqs = [r \in Req |-> IdleReq]
  /\ ledgerLog = {}

InitWith(st, ca, me, cr) == InitTables(st, ca, me, cr) /\ calc = NoCalc

FullStock == [p \in Products |-> MaxStock]
CartOf(u, c) == [v \in Users |-> IF v = u THEN c ELSE EmptyCart]
NonEmptyCarts == {c \in [Products -> 0..MaxQty] : ~CartEmpty(c)}
CreditOf(u, amount) ==
  [c \in Credits |-> [userId |-> u, amount |-> amount, status |-> "available", usedOrderId |-> 0]]
NoCredits == [c \in Credits |-> NoCredit]
MembersOf(u, pts) == [v \in Users |-> IF v = u THEN pts ELSE NoRow]

\* the steps of a checkout after its handler has started: createOrder and
\* the post-creation side effects
PersistSteps ==
  \E r \in Req :
    \/ InsertOrder(r)
    \/ InsertItems(r)
    \/ Commit(r)
    \/ \E p \in Products : StockTask(r, p)
    \/ MemRead(r)
    \/ MemGrant(r)
    \/ CreditTask(r)
    \/ clearCartByUser(r)

\* the debit of redeemed points, which only a checkout with a loyalty
\* redemption makes
DebitStep == \E r \in Req : MemDeduct(r)

\* --------------------------------------------------------- the NETS rail
InitNets ==
  \E m \in {NoRow, 0}, cr \in {NoCredits, CreditOf(1, 50)} :
    InitWith(FullStock, CartOf(1, [p \in Products |-> 1]), MembersOf(1, m), cr)

NextNets ==
  \/ Tick
  \/ generateQrCode(1)
  \/ \E r \in Req : Quiet /\ confirmPayment(r, 1)
  \/ \E r \in Req, raw \in RawStatuses, code \in ResponseCodes : netsStatusAnswer(r, raw, code)
  \/ \E r \in Req : netsStatusError(r)
  \/ PersistSteps

SpecNets == InitNets /\ [][NextNets]_vars

NetsAnswered(q) == q.kind = "nets" /\ q.status \in {"success", "pending", "failed"}

C11_NetsWindowEnforced ==
  \A r \in Req :
    (reqs[r].kind = "nets" /\ reqs[r].createdAt # 0
       /\ reqs[r].at - reqs[r].createdAt > ttlMs)
    => /\ reqs[r].orderId = 0
       /\ reqs[r].resp # "ok"

\* ------------------------------------------------ the PayPal and Stripe rails
InitPay ==
  InitWith(FullStock, CartOf(1, [p \in Products |-> 1]), MembersOf(1, 0), CreditOf(1, 50))

NextPay ==
  \/ Tick
  \/ createPaypalOrder(1)
  \/ createStripePaymentIntent(1)
  \/ \E r \in Req, id \in {0} \cup ExtIds : Quiet /\ capturePaypalOrder(r, 1, id)
  \/ \E r \in Req, id \in {0} \cup ExtIds : Quiet /\ confirmStripePayment(r, 1, id)
  \/ \E r \in Req, st \in PaypalStatuses : paypalCaptureAnswer(r, st)
  \/ \E r \in Req, st \in StripeStatuses : stripeDetailsAnswer(r, st)
  \/ PersistSteps

SpecPay == InitPay /\ [][NextPay]_vars

\* C2: an order is persisted by PayPal capture or Stripe confirm only if the
\* provider reported the payment as successful (PayPal COMPLETED, Stripe
\* succeeded); a provider error or a response without a status creates none
C2_OrderOnlyOnProviderSuccess ==
  \A o \in orders :
    /\ o.paymentMethod = "PAYPAL" => o.provider = "COMPLETED"
    /\ o.paymentMethod = "STRIPE" => o.provider = "succeeded"

PendingOf(kind, u) == IF kind = "paypal" THEN session[u].paypal ELSE session[u].stripe

\* C10: a PayPal capture or Stripe confirm request is rejected without
\* contacting the provider and without creating an order whenever the session
\* holds no pending checkout, the supplied identifier differs from the stored
\* one, or the pending checkout is older than 20 minutes; a rejected request
\* never goes on to contact the provider or to create an order
C10_RejectedWithoutProvider ==
  [][\A r \in Req :
       /\ (reqs[r].kind = "idle" /\ reqs'[r].kind \in {"paypal", "stripe"}) =>
            LET pending == PendingOf(reqs'[r].kind, reqs'[r].user)
            IN  (\/ pending = NoPending
                 \/ pending.id # reqs'[r].ext
                 \/ now - pending.createdAt > ttlMs)
                => /\ ~reqs'[r].called
                   /\ reqs'[r].pc = "done"
                   /\ reqs'[r].resp \in {"missing_id", "no_pending", "mismatch", "expired"}
                   /\ orders' = orders
       /\ (reqs[r].resp \in {"missing_id", "no_pending", "mismatch", "expired"}) =>
            /\ reqs'[r] = reqs[r]
            /\ ~reqs[r].called /\ reqs[r].orderId = 0
    ]_vars

\* C10 witness: one confirm request was rejected for an expired pending
\* checkout and one for a mismatching identifier, neither reached the provider
C10_Witness ==
  /\ \E r \in Req : reqs[r].resp = "expired" /\ ~reqs[r].called /\ reqs[r].orderId = 0
  /\ \E r \in Req : reqs[r].resp = "mismatch" /\ ~reqs[r].called /\ reqs[r].orderId = 0

\* C19: the 25% first-order discount is applied to at most one order per
\* user: at most one of a user's persisted orders has discountPercent = 25
C19_FirstOrderDiscountOnce ==
  \A u \in Users :
    Cardinality({o \in CommittedOrders : o.userId = u /\ o.discountPercent = 25}) <= 1

\* ------------------------------------- concurrent checkouts of one user
\* user 1 is a member with points and an available refund credit, and submits
\* the checkout form up to twice, the second time possibly before the first
\* request has finished
InitRace ==
  \E c \in {[p \in Products |-> IF p = 1 THEN 1 ELSE 0], [p \in Products |-> 1]} :
    InitWith(FullStock, CartOf(1, c), MembersOf(1, MaxPoints), CreditOf(1, 50))

NextRace ==
  \/ \E pts \in {MaxPoints, 1} : reqs[1].kind = "idle" /\ redeemLoyalty(1, pts)
  \/ \E r \in Req : processCheckout(r, 1, TRUE)
  \/ PersistSteps
  \/ DebitStep

SpecRace == InitRace /\ [][NextRace]_vars

\* C3: at most one persisted order claims a refund credit, i.e. at most one
\* order has had its payable total reduced by that credit's amount
C3_CreditClaimedOnce ==
  \A c \in Credits : Cardinality({o \in CommittedOrders : o.creditId = c}) <= 1

MarkUsedCalls(c) == {e \in ledgerLog : e.op = "markUsed" /\ e.key = c}

\* C4: markUsed changes a credit only when it is available: of the markUsed
\* calls made on one credit exactly one changes the row, afterwards the credit
\* is used with usedOrderId the order of that call, and it never changes again
C4_MarkUsedOnce ==
  [][\A c \in Credits :
       /\ credits[c].status = "used" => credits'[c] = credits[c]
       /\ MarkUsedCalls(c)' # {} =>
            /\ Cardinality({e \in MarkUsedCalls(c)' : e.ok}) = 1
            /\ credits'[c].status = "used"
            /\ \E e \in MarkUsedCalls(c)' : e.ok /\ credits'[c].usedOrderId = e.amount
    ]_vars

\* C4 witness: two markUsed calls for two different orders were made on the
\* same credit; one changed the row and the other did not
C4_Witness ==
  \E c \in Credits : \E e1, e2 \in MarkUsedCalls(c) :
    e1.amount # e2.amount /\ e1.ok /\ ~e2.ok /\ credits[c].usedOrderId = e1.amount

\* C5: every membership's persisted points balance is >= 0
C5_PointsNeverNegative ==
  \A u \in Users : members[u] # NoRow => members[u] >= 0

\* ------------------------------------------ order status after checkout
\* user 1, a member, has placed one order, which is still processing
PlacedOrder ==
  [id |-> 1, userId |-> 1, totalAmount |-> 351, discountPercent |-> 0,
   status |-> "processing", paymentMethod |-> "CARD", creditId |-> 0, points |-> 0,
   ext |-> 0, provider |-> "none", elapsed |-> 0]

InitStatus ==
  /\ now = 1
  /\ stock = FullStock
  /\ cart = [u \in Users |-> EmptyCart]
  /\ orders = {PlacedOrder}
  /\ orderItems = {[orderId |-> 1, productId |-> p, quantity |-> 1, price |-> Price(p)] : p \in Products}
  /\ nextOrderId = 2
  /\ tx = NoTx
  /\ members = MembersOf(1, 0)
  /\ credits = NoCredits
  /\ reports = [x \in Reports |-> NoReport]
  /\ session = [u \in Users |-> NoSession]
  /\ nextExt = 1
  /\ reqs = [r \in Req |-> IdleReq]
  /\ ledgerLog = {}
  /\ calc = NoCalc

NextStatus ==
  \/ \E u \in {1, 3} : completeOrder(u, 1)
  \/ submitReport(1, 1)
  \/ \E r \in Req, id \in Reports, t \in ResolveTargets, a \in {0, 100}, n \in BOOLEAN :
       resolveReport(r, id, t, a, n)
  \/ \E r \in Req : resolveUpdateReport(r)
  \/ \E r \in Req : resolveUpdateStatus(r)
  \/ \E r \in Req : resolveBonusRead(r)
  \/ \E r \in Req : resolveBonusAdd(r)

SpecStatus == InitStatus /\ [][NextStatus]_vars

\* C6: order status transitions are never reversed: over owner completions
\* and refund resolutions an order that has left processing never returns to
\* processing, and an order that has become cancelled, refund_full,
\* refund_partial or refund_rejected is never set back to completed
C6_StatusNeverReversed ==
  [][\A o \in orders : \A n \in orders' :
       n.id = o.id =>
         /\ o.status # "processing" => n.status # "processing"
         /\ o.status \in {"cancelled", "refund_full", "refund_partial", "refund_rejected"}
              => n.status # "completed"
    ]_vars

Approved == {"approved_full", "approved_partial"}

\* the request is about to run OrderModel.updateStatus of resolveReport
AtUpdateStatus(q) == q.kind = "resolve" /\ q.pc = "updateStatus"

\* C16: when resolveReport approves a report, the order's status becomes
\* cancelled if the order is not completed when the resolution sets it, and
\* refund_full or refund_partial respectively if it is completed
C16_ApprovalStatus ==
  [][\A r \in Req :
       (AtUpdateStatus(reqs[r]) /\ ~AtUpdateStatus(reqs'[r]) /\ reqs[r].rep.target \in Approved)
       => \A o \in orders : o.id = reqs[r].rep.orderId =>
            \E n \in orders' :
              /\ n.id = o.id
              /\ n.status = IF o.status # "completed" THEN "cancelled"
                            ELSE IF reqs[r].rep.target = "approved_full" THEN "refund_full"
                            ELSE "refund_partial"
    ]_vars

\* C17: refund resolution sets an order's status to refund_full,
\* refund_partial or refund_rejected only when the order is completed at the
\* time the report is resolved
C17_RefundStatusOnlyIfCompleted ==
  [][\A o \in orders : \A n \in orders' :
       (n.id = o.id /\ n.status # o.status
          /\ n.status \in {"refund_full", "refund_partial", "refund_rejected"})
       => o.status = "completed"
    ]_vars

\* C18: when a refund has been approved with a positive refund amount, an
\* available refund credit of that amount exists for the report's user
\* (or has since been used by one of that user's orders)
C18_ApprovalIssuesCredit ==
  \A r \in Req :
    LET q == reqs[r]
    IN  (q.kind = "resolve" /\ q.pc = "done" /\ q.resp = "ok"
           /\ q.rep.target \in Approved /\ q.rep.amount > 0)
        => \E c \in Credits :
             /\ credits[c].userId = q.rep.userId
             /\ credits[c].amount = q.rep.amount
             /\ credits[c].status \in {"available", "used"}

\* ---------------------------------------------- createOrder with failures
InitTx ==
  InitWith(FullStock, CartOf(1, [p \in Products |-> 1]), MembersOf(1, 0), CreditOf(1, 50))

NextTx ==
  \/ \E r \in Req : processCheckout(r, 1, TRUE)
  \/ \E r \in Req : InsertOrderFail(r)
  \/ \E r \in Req : InsertItemsFail(r)
  \/ \E r \in Req : CommitFail(r)
  \/ PersistSteps

SpecTx == InitTx /\ [][NextTx]_vars

CreateFailed(q) == q.kind \in PersistKinds /\ q.resp = CreateFailedResp(q.kind)
CreateSucceeded(q) == q.kind \in PersistKinds /\ q.pc = "effects"

InitStock ==
  \E st \in [Products -> 0..MaxStock] :
    InitWith(st,
             [u \in Users |-> IF u = 1 THEN [p \in Products |-> MaxQty]
                              ELSE IF u = 2 THEN [p \in Products |-> 1]
                              ELSE EmptyCart],
             [u \in Users |-> NoRow], NoCredits)

NextStock ==
  \/ \E r \in Req : processCheckout(r, IF r = 1 THEN 1 ELSE 2, TRUE)
  \/ \E r \in Req : InsertOrder(r)
  \/ \E r \in Req : InsertItems(r)
  \/ \E r \in Req : Commit(r)
  \/ \E r \in Req, p \in Products : StockTask(r, p)
  \/ \E r \in Req : MemRead(r)
  \/ \E r \in Req : clearCartByUser(r)

SpecStock == InitStock /\ [][NextStock]_vars

\* C8: every product's stock quantity is >= 0 in every reachable state
C8_StockNeverNegative == \A p \in Products : stock[p] >= 0

\* C8 witness: a decrement asked for more than was in stock and left zero
C8_Witness ==
  \E e \in ledgerLog : e.op = "dec" /\ e.amount > e.before /\ stock[e.key] = 0

\* C9: the stock decrement for an order signals a failure for every order
\* line whose requested quantity exceeds the product's stock at the time of
\* the decrement
C9_ShortLineSignalsFailure ==
  \A e \in ledgerLog : (e.op = "dec" /\ e.amount > e.before) => ~e.ok

\* ------------------------------ side effects and creations that may fail
\* user 1, a member with points and a refund credit, pays on any of the four
\* rails; every database call after the payment may call back with an error
InitEffects ==
  InitWith(FullStock, CartOf(1, [p \in Products |-> 1]), MembersOf(1, MaxPoints), CreditOf(1, 50))

\* a post-creation side effect calls back with an error
EffectFailures ==
  \E r \in Req :
    \/ \E p \in Products : StockTaskFail(r, p)
    \/ MemReadFail(r)
    \/ MemGrantFail(r)
    \/ CreditTaskFail(r)

\* a step of createOrder calls back with an error
CreateFailures ==
  \E r \in Req : InsertOrderFail(r) \/ InsertItemsFail(r) \/ CommitFail(r)

NextEffects ==
  \/ \E r \in Req : Quiet /\ processCheckout(r, 1, TRUE)
  \/ Quiet /\ generateQrCode(1)
  \/ \E r \in Req : Quiet /\ confirmPayment(r, 1)
  \/ \E r \in Req : netsStatusAnswer(r, "1", "00")
  \/ Quiet /\ createPaypalOrder(1)
  \/ \E r \in Req : Quiet /\ capturePaypalOrder(r, 1, session[1].paypal.id)
  \/ \E r \in Req : paypalCaptureAnswer(r, "COMPLETED")
  \/ Quiet /\ createStripePaymentIntent(1)
  \/ \E r \in Req : Quiet /\ confirmStripePayment(r, 1, session[1].stripe.id)
  \/ \E r \in Req : stripeDetailsAnswer(r, "succeeded")
  \/ PersistSteps
  \/ EffectFailures
  \/ CreateFailures

SpecEffects == InitEffects /\ [][NextEffects]_vars

\* the order of request q is committed and its handler has answered
OrderStands(q) ==
  /\ q.pc = "effects" /\ q.fin
  /\ \E o \in CommittedOrders : o.id = q.orderId

SideEffectFailed(r) == \E e \in ledgerLog : e.req = r /\ ~e.ok

\* C12: in every checkout flow, once the order row has been created the
\* clearing of the user's cart is issued, whether or not the stock decrement,
\* the loyalty adjustment or the refund-credit consumption failed
C12_CartClearedAfterOrder ==
  \A r \in Req : OrderStands(reqs[r]) => reqs[r].clear \in {"todo", "done"}

\* C13: in every checkout flow, if the order row was created and a
\* post-creation side effect fails, the order stays persisted and the outcome
\* reported to the user is success
C13_SuccessDespiteSideEffectFailure ==
  \A r \in Req :
    (reqs[r].pc = "effects" /\ reqs[r].fin /\ SideEffectFailed(r))
    => /\ reqs[r].resp = "ok"
       /\ \E o \in CommittedOrders : o.id = reqs[r].orderId

\* C14: after order creation a failure of one side effect does not prevent
\* the others of that order: when the request has no call outstanding, every
\* order line has had its decrement call, the applied credit its markUsed
\* call and a member with points to earn the grant call
C14_SideEffectsIndependent ==
  \A r \in Req :
    LET q == reqs[r]
    IN  (q.pc = "effects" /\ Over(q)) =>
          /\ \A p \in Products : q.pay.items[p] > 0 =>
                \E e \in ledgerLog : e.req = r /\ e.key = p /\ e.op \in {"dec", "decErr"}
          /\ (q.pay.creditId # 0 /\ q.pay.creditAmt > 0) =>
                \E e \in ledgerLog : e.req = r /\ e.op \in {"markUsed", "markUsedErr"}
          /\ (PointsToGrant(q) > 0 /\ members[q.user] # NoRow) =>
                \E e \in ledgerLog : e.req = r /\ e.op \in {"grant", "grantErr", "memReadErr"}

\* createOrder of request q called back with an error
CreateFailedAny(q) == q.pc = "done" /\ q.pay # NoPay /\ q.resp = CreateFailedResp(q.kind)

\* C15: within a checkout no stock decrement, points change, credit
\* consumption or cart clear happens before the order row is committed, and
\* a checkout whose order creation failed makes none of them
C15_EffectsOnlyAfterCommit ==
  [][/\ (stock' # stock \/ members' # members \/ credits' # credits \/ cart' # cart)
          => \E r \in Req :
               /\ reqs'[r] # reqs[r]
               /\ \E o \in CommittedOrders : o.id = reqs[r].orderId
               /\ ~CreateFailedAny(reqs[r])
     /\ \A r \in Req : CreateFailedAny(reqs[r]) =>
          /\ reqs'[r] = reqs[r]
          /\ reqs[r].clear = "none"
          /\ \A e \in ledgerLog' : e.req # r
    ]_vars

\* C15 witness: one checkout failed in createOrder after its order row had
\* been inserted and left stock, points, credit and cart as they were; a
\* later checkout committed its order and then decremented the stock
C15_Witness ==
  /\ \E r \in Req : CreateFailedAny(reqs[r]) /\ reqs[r].orderId # 0
  /\ \E e \in ledgerLog : e.op = "dec" /\ stock[e.key] < e.before
       /\ \E o \in CommittedOrders : o.id = reqs[e.req].orderId

\* ------------------------------------------------ the checkout computation
\* users 1 and 2 hold the same cart; user 1 may have placed an order before
InitPricing ==
  \E c \in NonEmptyCarts, prior \in {{}, {PlacedOrder}} :
    /\ now = 1
    /\ stock = FullStock
    /\ cart = [u \in Users |-> IF u = 3 THEN EmptyCart ELSE c]
    /\ orders = prior
    /\ orderItems = {}
    /\ nextOrderId = IF prior = {} THEN 1 ELSE 2
    /\ tx = NoTx
    /\ members = [u \in Users |-> NoRow]
    /\ credits = NoCredits
    /\ reports = [x \in Reports |-> NoReport]
    /\ session = [u \in Users |-> NoSession]
    /\ nextExt = 1
    /\ reqs = [r \in Req |-> IdleReq]
    /\ ledgerLog = {}
    /\ calc = NoCalc

NextPricing ==
  \/ \E r \in Req, u \in {1, 2} : processCheckout(r, u, TRUE)
  \/ \E u \in {1, 2} : generateQrCode(u)
  \/ \E r \in Req : InsertOrder(r)
  \/ \E r \in Req : InsertItems(r)
  \/ \E r \in Req : Commit(r)
  \/ \E r \in Req, p \in Products : StockTask(r, p)
  \/ \E r \in Req : MemRead(r)
  \/ \E r \in Req : clearCartByUser(r)

SpecPricing == InitPricing /\ [][NextPricing]_vars

\* d is 75% of c, to the cent
ThreeQuarters(d, c) == 4 * d - 3 * c \in -2..2

\* C20: the checkout computation yields discountPercent = 25 and
\* discountedTotal = 75% of cartTotal when the user has no prior order, and
\* discountPercent = 0 and discountedTotal = cartTotal when the user has one
\* or more, in computeCheckoutState and in computeTotals alike
C20_DiscountByPriorOrders ==
  \A u \in Users :
    LET co == computeCheckoutState(u, session[u].loyalty)
        t == computeTotals(u)
    IN  IF getOrdersByUser(u) = {}
        THEN /\ co.pay.pct = 25 /\ ThreeQuarters(co.discountedTotal, co.cartTotal)
             /\ t.pay.pct = 25 /\ ThreeQuarters(t.discountedTotal, t.cartTotal)
        ELSE /\ co.pay.pct = 0 /\ co.discountedTotal = co.cartTotal
             /\ t.pay.pct = 0 /\ t.discountedTotal = t.cartTotal

\* C20 witness: a user without a prior order checked out a cart at 25% off,
\* and a user with a prior order and a cart that is not empty gets no discount
C20_Witness ==
  /\ \E r \in Req :
       /\ reqs[r].kind = "card" /\ reqs[r].pay.pct = 25 /\ reqs[r].pay.total > 0
       /\ ThreeQuarters(reqs[r].pay.total, mapCartItems(reqs[r].pay.items))
  /\ \E u \in Users :
       /\ getOrdersByUser(u) # {} /\ ~CartEmpty(cart[u])
       /\ computeCheckoutState(u, 0).discountedTotal = mapCartItems(cart[u])
       /\ session[u].nets.pay.pct = 0 /\ session[u].nets.pay.total = mapCartItems(cart[u])

\* ------------------------------------------------ computeLoyaltyUsage
MaxCents == 25       \* subtotals 0 .. MaxCents cents are all tried
MaxRequest == 3      \* requests of 1 .. MaxRequest points are all tried

Subtotals == 0..MaxCents \cup {1500}
LoyaltyRequests == 1..MaxRequest \cup {149, 150, 200}

\* a redemption of some points is about to be applied to some subtotal
InitLoyalty ==
  \E R \in LoyaltyRequests, sub \in Subtotals :
    /\ InitTables(FullStock, [u \in Users |-> EmptyCart], [u \in Users |-> NoRow], NoCredits)
    /\ calc = [NoCalc EXCEPT !.fn = "computeLoyaltyUsage", !.requested = R, !.subtotal = sub]

\* computeLoyaltyUsage(loyaltyRedemption, subtotal) returns
\* { pointsUsed, discountAmount: Number((applicablePoints / 10).toFixed(2)) }
applyLoyaltyUsage ==
  /\ calc.fn = "computeLoyaltyUsage" /\ ~calc.done
  /\ LET pointsUsed == computeLoyaltyUsage(calc.requested, calc.subtotal)
     IN  calc' = [calc EXCEPT !.done = TRUE, !.pointsUsed = pointsUsed,
                              !.discountAmount = pointsUsed * 10]
  /\ UNCHANGED <<now, stock, cart, orders, orderItems, nextOrderId, tx, members, credits, reports, session, nextExt, reqs, ledgerLog>>

NextLoyalty == applyLoyaltyUsage

SpecLoyalty == InitLoyalty /\ [][NextLoyalty]_vars

LoyaltyApplied == calc.fn = "computeLoyaltyUsage" /\ calc.done /\ calc.subtotal > 0

\* C21 (as claimed): for a redemption request of R points against a
\* discountedTotal > 0, the points applied are floor(discountedTotal*10) - 1
\* if R >= floor(discountedTotal*10) and R otherwise; the loyalty discount is
\* pointsUsed/10, and points alone never bring the total to zero
C21_ClampToFloorMinusOne ==
  LoyaltyApplied =>
    /\ calc.pointsUsed = IF calc.requested >= calc.subtotal \div 10
                         THEN (calc.subtotal \div 10) - 1 ELSE calc.requested
    /\ calc.discountAmount = calc.pointsUsed * 10
    /\ calc.subtotal - calc.discountAmount > 0

\* C21 (amended): as claimed, except that the points applied are never
\* negative: against a discountedTotal below 0.10 no point is applied
C21_ClampToFloorMinusOneOrZero ==
  LoyaltyApplied =>
    /\ calc.pointsUsed = IF calc.requested >= calc.subtotal \div 10
                         THEN Max(0, (calc.subtotal \div 10) - 1) ELSE calc.requested
    /\ calc.discountAmount = calc.pointsUsed * 10
    /\ calc.subtotal - calc.discountAmount > 0

\* C21 witness: discountedTotal 15.00 and a request of 200 points give 149
\* points, 14.90 off
C21_Witness ==
  /\ LoyaltyApplied /\ calc.subtotal = 1500 /\ calc.requested = 200
  /\ calc.pointsUsed = 149 /\ calc.discountAmount = 1490

\* -------------------------------------- the payable total of a checkout
\* user 1 holds some cart, may have ordered before, may hold a refund credit
\* smaller or larger than the cart, and may have a loyalty redemption stored
\* in the session (made for the cart as it was then)
InitCheckout ==
  \E c \in NonEmptyCarts, prior \in {{}, {PlacedOrder}},
     cr \in {NoCredits, CreditOf(1, 50), CreditOf(1, 1000)},
     R \in {0} \cup LoyaltyRequests :
    /\ now = 1
    /\ stock = FullStock
    /\ cart = CartOf(1, c)
    /\ orders = prior
    /\ orderItems = {}
    /\ nextOrderId = IF prior = {} THEN 1 ELSE 2
    /\ tx = NoTx
    /\ members = MembersOf(1, R)
    /\ credits = cr
    /\ reports = [x \in Reports |-> NoReport]
    /\ session = [u \in Users |-> IF u = 1 THEN [NoSession EXCEPT !.loyalty = R] ELSE NoSession]
    /\ nextExt = 1
    /\ reqs = [r \in Req |-> IdleReq]
    /\ ledgerLog = {}
    /\ calc = NoCalc

NextCheckout ==
  \/ \E r \in Req : processCheckout(r, 1, TRUE)
  \/ createPaypalOrder(1)
  \/ createStripePaymentIntent(1)
  \/ generateQrCode(1)

SpecCheckout == InitCheckout /\ [][NextCheckout]_vars

\* the amount of the credit the checkout of user u would draw on, 0 for none
AvailableCreditAmount(u) ==
  IF \E c \in Credits : credits[c].userId = u /\ credits[c].status = "available"
  THEN credits[getLatestAvailableByUser(u)].amount
  ELSE 0

\* C22: for every cart, order history, loyalty redemption and available
\* refund credit the payableTotal of the checkout computation satisfies
\* 0 <= payableTotal <= discountedTotal
C22_PayableWithinBounds ==
  \A u \in Users :
    LET co == computeCheckoutState(u, session[u].loyalty)
        t == computeTotals(u)
    IN  /\ 0 <= co.pay.total /\ co.pay.total <= co.discountedTotal
        /\ 0 <= t.pay.total /\ t.pay.total <= t.discountedTotal

\* C22 witness: a checkout was computed whose credit exceeds what is left
\* after the loyalty discount, and its payable total is zero
C22_Witness ==
  \E r \in Req :
    /\ reqs[r].kind = "card" /\ reqs[r].pay.total = 0
    /\ reqs[r].pay.points > 0
    /\ AvailableCreditAmount(reqs[r].user) > mapCartItems(reqs[r].pay.items)

\* C23: payableTotal = max(0, discountedTotal - loyaltyDiscountAmount -
\* refundCreditAmount) with refundCreditAmount = max(0, min(available credit,
\* discountedTotal - loyaltyDiscountAmount))
C23_PayableFormula ==
  \A u \in Users :
    LET co == computeCheckoutState(u, session[u].loyalty)
        loyaltyDiscountAmount == co.pay.points * 10
        left == co.discountedTotal - loyaltyDiscountAmount
        avail == AvailableCreditAmount(u)
        lesser == IF avail <= left THEN avail ELSE left
        refundCreditAmount == IF lesser < 0 THEN 0 ELSE lesser
        payableTotal == IF left - refundCreditAmount < 0 THEN 0 ELSE left - refundCreditAmount
    IN  /\ co.pay.creditAmt = refundCreditAmount
        /\ co.pay.total = payableTotal

\* C23 witness: a checkout with a credit of 0.50, no redemption and a larger
\* discounted total was computed: the credit is taken whole and the payable
\* total is the discounted total less 0.50
C23_Witness ==
  \E r \in Req :
    /\ reqs[r].kind = "card" /\ reqs[r].pay.points = 0
    /\ reqs[r].pay.creditAmt = 50 /\ reqs[r].pay.total > 0
    /\ reqs[r].pay.total = computeCheckoutState(reqs[r].user, 0).discountedTotal - 50

\* ------------------------------------------------------ refund resolution
\* order 1 of user 1 with a pending report; the order's total and status and
\* the user's membership vary
RefundTotals == {0, 30, 351, 1500}
SubmittedAmounts == {0, 100, 500, 0 - 100, NotANumber}

InitRefund ==
  \E t \in RefundTotals, st \in {"processing", "completed"}, m \in {NoRow, 0} :
    /\ now = 1
    /\ stock = FullStock
    /\ cart = [u \in Users |-> EmptyCart]
    /\ orders = {[PlacedOrder EXCEPT !.totalAmount = t, !.status = st]}
    /\ orderItems = {[orderId |-> 1, productId |-> p, quantity |-> 1, price |-> Price(p)] : p \in Products}
    /\ nextOrderId = 2
    /\ tx = NoTx
    /\ members = MembersOf(1, m)
    /\ credits = NoCredits
    /\ session = [u \in Users |-> NoSession]
    /\ nextExt = 1
    /\ reqs = [r \in Req |-> IdleReq]
    /\ ledgerLog = {}
    /\ reports = [x \in Reports |-> IF x = 1
                    THEN [orderId |-> 1, userId |-> 1, status |-> "pending", refundAmount |-> 0]
                    ELSE NoReport]
    /\ calc = NoCalc

NextRefund ==
  \/ \E r \in Req, t \in ResolveTargets, a \in SubmittedAmounts, n \in BOOLEAN :
       Quiet /\ resolveReport(r, 1, t, a, n)
  \/ \E r \in Req : resolveUpdateReport(r)
  \/ \E r \in Req : resolveUpdateStatus(r)
  \/ \E r \in Req : resolveBonusRead(r)
  \/ \E r \in Req : resolveBonusAdd(r)

SpecRefund == InitRefund /\ [][NextRefund]_vars

\* totalAmount of the order a report is about, as stored in the orders table
ReportOrderTotal(id) ==
  LET o == CHOOSE x \in orders : x.id = reports[id].orderId IN o.totalAmount

\* C24: when resolveReport resolves a report as approved_full the refund
\* amount persisted on the report is the order's total, for every order and
\* every submitted amount; as approved_partial it is the submitted amount
C24_FullRefundIsOrderTotal ==
  [][\A r \in Req :
       (reqs[r].kind = "resolve" /\ reqs[r].pc = "updateReport" /\ reqs'[r].pc # "updateReport")
       => LET id == reqs[r].rep.id
          IN  /\ reqs[r].rep.target = "approved_full"
                   => reports'[id].refundAmount = ReportOrderTotal(id)
              /\ reqs[r].rep.target = "approved_partial"
                   => reports'[id].refundAmount = reqs[r].rep.submitted]_vars

\* floor(floor(orderTotal * 10) * p), p = 0.25 / 0.10 / 0
ExpectedBonus(target, total) ==
  LET base == total \div 10
  IN  IF target = "approved_full" THEN base \div 4
      ELSE IF target = "approved_partial" THEN base \div 10
      ELSE 0

\* C25: a refund resolution adds floor(floor(orderTotal*10) * p) points
\* (p = 0.25 full, 0.10 partial, 0 rejected) to the balance of a user who
\* holds a membership, and a resolution that ends without adding points is
\* one whose bonus is 0 or whose user holds no membership
C25_RefundBonus ==
  [][\A r \in Req :
       LET q == reqs[r]
           u == q.rep.userId
           b == ExpectedBonus(q.rep.target, ReportOrderTotal(q.rep.id))
       IN  /\ (q.kind = "resolve" /\ q.pc = "bonusAdd" /\ reqs'[r].pc = "done")
                => members[u] # NoRow /\ members'[u] = members[u] + b /\ b > 0
           /\ (q.kind = "resolve" /\ q.pc \in {"updateStatus", "bonusRead"} /\ reqs'[r].pc = "done")
                => members' = members /\ (b = 0 \/ members[u] = NoRow)
           /\ (q.kind = "resolve" /\ q.pc = "updateStatus" /\ reqs'[r].pc = "bonusRead")
                => b > 0]_vars

\* Scenario D: approved_partial on orderTotal 15.00 has granted 15 points to
\* a member who had none
C25_Witness ==
  /\ members[1] = 15
  /\ \E r \in Req : /\ reqs[r].kind = "resolve" /\ reqs[r].pc = "done"
                    /\ reqs[r].rep.target = "approved_partial"
                    /\ reqs[r].rep.orderTotal = 1500
                    /\ \A s \in Req \ {r} : reqs[s].kind = "idle"

\* ------------------------------------------- membership join and cancel
\* UserController.toggleMembership: "join" is createForUser (INSERT IGNORE, a
\* row with 0 points unless one exists), "cancel" is removeByUser, after
\* which the session's loyalty redemption is deleted
toggleMembership(u, action) ==
  /\ action \in {"join", "cancel"}
  /\ IF action = "join"
     THEN /\ members' = [members EXCEPT ![u] = IF @ = NoRow THEN 0 ELSE @]
          /\ UNCHANGED session
     ELSE /\ members' = [members EXCEPT ![u] = NoRow]
          /\ session' = [session EXCEPT ![u].loyalty = 0]
  /\ UNCHANGED <<now, stock, cart, orders, orderItems, nextOrderId, tx, credits, reports, nextExt, reqs, ledgerLog, calc>>

\* user 1, a member or not, has placed order 1, reported it, and has a cart
InitMember ==
  \E m \in {NoRow, MaxPoints} :
    /\ now = 1
    /\ stock = FullStock
    /\ cart = CartOf(1, [p \in Products |-> 1])
    /\ orders = {PlacedOrder}
    /\ orderItems = {[orderId |-> 1, productId |-> p, quantity |-> 1, price |-> Price(p)] : p \in Products}
    /\ nextOrderId = 2
    /\ tx = NoTx
    /\ members = MembersOf(1, m)
    /\ credits = NoCredits
    /\ reports = [x \in Reports |-> IF x = 1
                    THEN [orderId |-> 1, userId |-> 1, status |-> "pending", refundAmount |-> 0]
                    ELSE NoReport]
    /\ session = [u \in Users |-> NoSession]
    /\ nextExt = 1
    /\ reqs = [r \in Req |-> IdleReq]
    /\ ledgerLog = {}
    /\ calc = NoCalc

NextMember ==
  \/ \E a \in {"join", "cancel"} : toggleMembership(1, a)
  \/ reqs[1].kind = "idle" /\ redeemLoyalty(1, MaxPoints)
  \/ processCheckout(1, 1, TRUE)
  \/ InsertOrder(1)
  \/ InsertItems(1)
  \/ Commit(1)
  \/ \E p \in Products : StockTask(1, p)
  \/ MemRead(1)
  \/ MemDeduct(1)
  \/ MemGrant(1)
  \/ clearCartByUser(1)
  \/ resolveReport(2, 1, "approved_full", 0, TRUE)
  \/ resolveUpdateReport(2)
  \/ resolveUpdateStatus(2)
  \/ resolveBonusRead(2)
  \/ resolveBonusAdd(2)

SpecMember == InitMember /\ [][NextMember]_vars

\* C26: no purchase grant, redemption debit or refund bonus creates a
\* membership row: a user without a membership row gets one only by joining,
\* never by a step of a checkout or of a refund resolution, whatever
\* cancellation interleaves with them
C26_GrantNeverCreatesRow ==
  [][\A u \in Users :
       (members[u] = NoRow /\ members'[u] # NoRow) => reqs' = reqs]_vars

\* ------------------------------------------ points balance over a checkout
\* user 1, a member, checks out by card, PayPal and NETS, one request after
\* another
InitPoints ==
  \E m \in {0, MaxPoints}, c \in {[p \in Products |-> IF p = 1 THEN 1 ELSE 0],
                                  [p \in Products |-> 1]} :
    InitWith(FullStock, CartOf(1, c), MembersOf(1, m), NoCredits)

NextPoints ==
  \/ \E pts \in {1, MaxPoints} : Quiet /\ redeemLoyalty(1, pts)
  \/ \E r \in Req : Quiet /\ processCheckout(r, 1, TRUE)
  \/ Quiet /\ createPaypalOrder(1)
  \/ \E r \in Req : Quiet /\ capturePaypalOrder(r, 1, session[1].paypal.id)
  \/ \E r \in Req : paypalCaptureAnswer(r, "COMPLETED")
  \/ Quiet /\ generateQrCode(1)
  \/ \E r \in Req : Quiet /\ confirmPayment(r, 1)
  \/ \E r \in Req : netsStatusAnswer(r, "1", "00")
  \/ \E r \in Req : InsertOrder(r)
  \/ \E r \in Req : InsertItems(r)
  \/ \E r \in Req : Commit(r)
  \/ \E r \in Req, p \in Products : StockTask(r, p)
  \/ \E r \in Req : MemRead(r)
  \/ \E r \in Req : MemDeduct(r)
  \/ \E r \in Req : MemGrant(r)
  \/ \E r \in Req : clearCartByUser(r)

SpecPoints == InitPoints /\ [][NextPoints]_vars

\* the order a request has created
OrderOf(r) == CHOOSE o \in orders : o.id = reqs[r].orderId

\* the balance getByUser returned to request r
BalanceRead(r) == {e.before : e \in {x \in ledgerLog' : x.op = "getByUser" /\ x.req = r}}

\* C27: when the point operations of a member's checkout are over, with no
\* failure and nothing else touching the membership, the balance is the
\* balance before them minus min(that balance, points redeemed on the
\* order) plus floor(order totalAmount * 10)
C27_BalanceAfterCheckout ==
  [][\A r \in Req :
       (reqs[r].pc = "effects" /\ reqs[r].mem \in {"read", "deduct", "grant"}
          /\ reqs'[r].mem = "done")
       => \A prior \in BalanceRead(r) :
            prior # NoRow =>
              LET o == OrderOf(r)
                  redeemed == IF prior <= o.points THEN prior ELSE o.points
              IN  members'[reqs[r].user] = prior - redeemed + o.totalAmount \div 10]_vars

\* a PayPal order checked out with 6 points redeemed is captured when the
\* balance has dropped to 1: 1 point is debited, 1 granted
C27_Witness ==
  \E r \in Req :
    /\ reqs[r].kind = "paypal" /\ reqs[r].mem = "done" /\ Over(reqs[r])
    /\ reqs[r].pay.points = MaxPoints /\ reqs[r].memDeduct = 1
    /\ members[1] = reqs[r].pay.total \div 10
    /\ \E e \in ledgerLog : e.op = "getByUser" /\ e.req = r /\ e.before = 1

\* --------------------------------------------------- orders at creation
\* C28: every order a checkout flow creates is written with status
\* processing, inside a transaction, with the payment identifier of the
\* request that creates it; its items are written in that same transaction,
\* and the transaction commits with all of them
C28_CreatedProcessing ==
  [][/\ \A o \in orders' \ orders :
          /\ o.status = "processing"
          /\ tx.owner = 0 /\ tx'.owner # 0 /\ tx'.orderId = o.id
          /\ o.ext = reqs[tx'.owner].ext
     /\ \A i \in orderItems' \ orderItems : tx.owner # 0 /\ i.orderId = tx.orderId
     /\ (tx.owner # 0 /\ tx'.owner = 0 /\ \E o \in orders' : o.id = tx.orderId)
          => {i.productId : i \in {x \in orderItems' : x.orderId = tx.orderId}}
               = {p \in Products : reqs[tx.owner].pay.items[p] > 0}]_vars

\* a NETS order and a PayPal order are both committed, each with its items
C28_Witness ==
  \E o1, o2 \in CommittedOrders :
    /\ o1.paymentMethod = "NETS" /\ o2.paymentMethod = "PAYPAL"
    /\ o1.status = "processing" /\ o2.status = "processing"
    /\ \A o \in {o1, o2} : \E i \in orderItems : i.orderId = o.id

\* ------------------------------------- order creation fails after capture
\* C29: in every payment flow, when createOrder fails after the payment was
\* captured, no order exists and the answer is the specific 'payment captured
\* but order creation failed, contact support' error
C29_CapturedButFailedMessage ==
  [][\A r \in Req :
       (reqs[r].pc \in {"insertOrder", "insertItems", "commit"} /\ reqs'[r].pc = "done")
       => /\ reqs'[r].resp = "captured_but_order_failed"
          /\ \A o \in orders' : o.id # reqs[r].orderId \/ reqs[r].orderId = 0]_vars

\* ------------------------------------------- validation of the card form
\* form fields are strings, written as sequences of characters; an absent or
\* empty field is <<>>
Digits == {"0", "1", "2", "3", "4", "5", "6", "7", "8", "9"}
DigitVal(c) == CHOOSE n \in 0..9 : c = <<"0", "1", "2", "3", "4", "5", "6", "7", "8", "9">>[n + 1]
AllDigits(s) == \A k \in 1..Len(s) : s[k] \in Digits

\* String.prototype.trim
RECURSIVE Trim(_)
Trim(s) ==
  IF s = <<>> THEN s
  ELSE IF Head(s) = " " THEN Trim(Tail(s))
  ELSE IF s[Len(s)] = " " THEN Trim(SubSeq(s, 1, Len(s) - 1))
  ELSE s

\* /^\+?\d{7,15}$/
ContactPattern(s) ==
  LET d == IF s # <<>> /\ Head(s) = "+" THEN Tail(s) ELSE s
  IN  Len(d) >= 7 /\ Len(d) <= 15 /\ AllDigits(d)

\* /^[^@\s]+@[^@\s]+\.[^@\s]+$/
EmailPattern(s) ==
  \E a, b \in 1..Len(s) :
    /\ 1 < a /\ a + 1 < b /\ b < Len(s)
    /\ s[a] = "@" /\ s[b] = "."
    /\ \A k \in 1..Len(s) : k # a => s[k] \notin {"@", " "}

\* /^(0[1-9]|1[0-2])\/\d{2}$/
ExpiryPattern(s) ==
  /\ Len(s) = 5
  /\ \/ s[1] = "0" /\ s[2] \in Digits \ {"0"}
     \/ s[1] = "1" /\ s[2] \in {"0", "1", "2"}
  /\ s[3] = "/"
  /\ s[4] \in Digits /\ s[5] \in Digits

\* new Date(year, month) <= now, month being the card's 1-based month used as
\* a 0-based index: the first instant of the month after the expiry month,
\* compared by month since now lies inside its month
ExpDateNotAfter(expiry, today) ==
  LET t == Trim(expiry)
      month == DigitVal(t[1]) * 10 + DigitVal(t[2])
      year == 2000 + DigitVal(t[4]) * 10 + DigitVal(t[5])
  IN  year * 12 + month <= today.year * 12 + (today.month - 1)

validateContactDetails(payload) ==
  (IF payload.fullName = <<>> THEN {"Full name is required."} ELSE {})
  \cup (IF payload.address = <<>> THEN {"Delivery address is required."} ELSE {})
  \cup (IF payload.contact = <<>> \/ ~ContactPattern(Trim(payload.contact))
        THEN {"Contact number must be 7-15 digits (may start with +)."} ELSE {})
  \cup (IF payload.email = <<>> \/ ~EmailPattern(Trim(payload.email))
        THEN {"A valid email is required (e.g., mary@mary.com)."} ELSE {})

\* the validation without the comparison of the expiry date with today
validateCardDetails_NoExpiredCheck(payload, today) ==
  (IF payload.cardNumber = <<>>
        \/ ~(Len(Trim(payload.cardNumber)) = 16 /\ AllDigits(Trim(payload.cardNumber)))
   THEN {"Card number must be exactly 16 digits."} ELSE {})
  \cup (IF payload.cvv = <<>>
             \/ ~(Len(Trim(payload.cvv)) \in {3, 4} /\ AllDigits(Trim(payload.cvv)))
        THEN {"CVV must be 3-4 digits."} ELSE {})
  \cup (IF payload.expiry = <<>> \/ ~ExpiryPattern(Trim(payload.expiry))
        THEN {"Expiry must be in MM/YY format."} ELSE {})

validateCardDetails(payload, today) ==
  (IF payload.cardNumber = <<>>
        \/ ~(Len(Trim(payload.cardNumber)) = 16 /\ AllDigits(Trim(payload.cardNumber)))
   THEN {"Card number must be exactly 16 digits."} ELSE {})
  \cup (IF payload.cvv = <<>>
             \/ ~(Len(Trim(payload.cvv)) \in {3, 4} /\ AllDigits(Trim(payload.cvv)))
        THEN {"CVV must be 3-4 digits."} ELSE {})
  \cup (IF payload.expiry = <<>> \/ ~ExpiryPattern(Trim(payload.expiry))
        THEN {"Expiry must be in MM/YY format."}
        ELSE IF ExpDateNotAfter(payload.expiry, today) THEN {"Card has expired."}
        ELSE {})

\* errors.length of processCheckout is 0
FormValid(payload, today) ==
  validateContactDetails(payload) \cup validateCardDetails(payload, today) = {}

DigitString(n) == [k \in 1..n |-> "4"]

\* a form that passes in November 2026
GoodForm ==
  [fullName |-> <<"M">>, address |-> <<"1", " ", "A">>,
   contact |-> <<"+">> \o DigitString(8),
   email |-> <<"m", "@", "m", ".", "c">>,
   cardNumber |-> DigitString(16), cvv |-> DigitString(3),
   expiry |-> <<"1", "1", "/", "2", "6">>]

Nov2026 == [year |-> 2026, month |-> 11]
Jan2027 == [year |-> 2027, month |-> 1]

\* submitted forms with the month they are submitted in and the field that
\* is wrong in them ("none": nothing is)
FormCases ==
  {[form |-> GoodForm, today |-> Nov2026, bad |-> "none"],
   [form |-> [GoodForm EXCEPT !.cvv = DigitString(4), !.contact = DigitString(15),
                              !.cardNumber = <<" ">> \o DigitString(16),
                              !.expiry = <<"1", "2", "/", "2", "6">>],
    today |-> Nov2026, bad |-> "none"],
   [form |-> GoodForm, today |-> Jan2027, bad |-> "expired"],
   [form |-> [GoodForm EXCEPT !.expiry = <<"1", "0", "/", "2", "6">>],
    today |-> Nov2026, bad |-> "expired"],
   [form |-> [GoodForm EXCEPT !.expiry = <<"1", "2", "/", "2", "6">>],
    today |-> Jan2027, bad |-> "expired"]}
  \cup {[form |-> [GoodForm EXCEPT !.expiry = e], today |-> Nov2026, bad |-> "expiry"] :
          e \in {<<>>, <<"1", "3", "/", "2", "7">>, <<"0", "0", "/", "2", "7">>,
                 <<"1", "/", "2", "7">>, <<"1", "2", "/", "2", "0", "2", "7">>,
                 <<"1", "2", "-", "2", "7">>}}
  \cup {[form |-> [GoodForm EXCEPT !.cardNumber = c], today |-> Nov2026, bad |-> "cardNumber"] :
          c \in {<<>>, DigitString(15), DigitString(17), DigitString(15) \o <<"x">>,
                 DigitString(8) \o <<" ">> \o DigitString(8)}}
  \cup {[form |-> [GoodForm EXCEPT !.cvv = c], today |-> Nov2026, bad |-> "cvv"] :
          c \in {<<>>, DigitString(2), DigitString(5), <<"4", "x", "4">>}}
  \cup {[form |-> [GoodForm EXCEPT !.contact = c], today |-> Nov2026, bad |-> "contact"] :
          c \in {<<>>, DigitString(6), DigitString(16), <<"+">>,
                 DigitString(4) \o <<"-">> \o DigitString(4),
                 DigitString(7) \o <<"+">>}}
  \cup {[form |-> [GoodForm EXCEPT !.email = e], today |-> Nov2026, bad |-> "email"] :
          e \in {<<>>, <<"m", "m", ".", "c">>, <<"m", "@", "m">>, <<"@", "m", ".", "c">>,
                 <<"m", "@", "m", ".">>, <<"m", "@", ".", "c">>,
                 <<"m", " ", "@", "m", ".", "c">>, <<"m", "@", "m", "@", "m", ".", "c">>}}
  \cup {[form |-> [GoodForm EXCEPT !.fullName = <<>>], today |-> Nov2026, bad |-> "fullName"],
        [form |-> [GoodForm EXCEPT !.address = <<>>], today |-> Nov2026, bad |-> "address"]}

\* user 1, a member with a refund credit and a cart, is about to submit one
\* of the forms
InitForm ==
  /\ InitTables(FullStock, CartOf(1, [p \in Products |-> 1]), MembersOf(1, MaxPoints),
                CreditOf(1, 50))
  /\ calc \in FormCases

NextForm ==
  \/ \E r \in Req : Quiet /\ processCheckout(r, 1, FormValid(calc.form, calc.today))
  \/ PersistSteps

SpecForm == InitForm /\ [][NextForm]_vars

\* C30: a card checkout whose contact or card fields fail validation is
\* rejected before any side effect: no order is created, and cart, stock,
\* membership points and refund credits are as they were
C30_InvalidFormNoEffect ==
  calc.bad # "none" =>
    /\ orders = {} /\ orderItems = {}
    /\ cart = CartOf(1, [p \in Products |-> 1])
    /\ stock = FullStock
    /\ members = MembersOf(1, MaxPoints)
    /\ credits = CreditOf(1, 50)
    /\ \A r \in Req : reqs[r].kind = "card" => reqs[r].resp = "invalid" /\ reqs[r].pc = "done"

\* a form whose card expired last month has been submitted and answered
C30_Witness ==
  /\ calc.bad = "expired" /\ calc.today = Nov2026
  /\ \E r \in Req : reqs[r].kind = "card" /\ reqs[r].resp = "invalid"
  /\ orders = {} /\ stock = FullStock

\* ------------------------------------------- rejected resolution requests
\* what the claim calls an invalid resolution request
BadResolution(rp) ==
  \/ rp.target \notin {"pending", "approved_full", "approved_partial", "rejected"}
  \/ rp.target = "rejected" /\ ~rp.note
  \/ rp.target \in {"approved_full", "approved_partial"}
       /\ (rp.submitted = NotANumber \/ rp.submitted < 0)

\* C31: resolveReport with an invalid target status, a rejection without a
\* resolution note, or an approval with a non-finite or negative amount
\* changes nothing: it is answered at once and the report, the order status
\* and the membership points stay as they are
C31_InvalidResolutionNoChange ==
  [][\A r \in Req :
       (reqs'[r].kind = "resolve" /\ BadResolution(reqs'[r].rep))
       => /\ reqs'[r].pc = "done" /\ reqs'[r].resp = "invalid"
          /\ reqs[r] # reqs'[r]
               => reports' = reports /\ orders' = orders /\ members' = members]_vars

\* a rejection without a note has been answered and report 1 is still pending
C31_Witness ==
  /\ \E r \in Req : /\ reqs[r].kind = "resolve" /\ reqs[r].rep.target = "rejected"
                    /\ ~reqs[r].rep.note /\ reqs[r].resp = "invalid"
  /\ reports[1].status = "pending" /\ reports[1].refundAmount = 0

\* ----------------------------------------- who may act on an order
OwnerOrAdmin_AnyUser(u, o) == TRUE

\* req.session.user.role !== 'admin' && order.userId !== req.session.user.id
\* is false
OwnerOrAdmin(u, o) == Role(u) = "admin" \/ o.userId = u

\* the answer of a handler that reads order id first
OrderAnswer(r, kind, u, id, resp) ==
  reqs' = [reqs EXCEPT ![r] = [IdleReq EXCEPT !.kind = kind, !.user = u, !.pc = "done",
                                 !.fin = TRUE, !.resp = resp, !.orderId = id]]

\* POST /orders/:id/complete by user u, with its answers
postOrderComplete(r, u, id) ==
  /\ Free(r)
  /\ LET found == {o \in CommittedOrders : o.id = id}
     IN  IF found = {} THEN OrderAnswer(r, "complete", u, id, "not_found") /\ orders' = orders
         ELSE IF ~OwnerOrAdmin(u, CHOOSE o \in found : TRUE)
         THEN OrderAnswer(r, "complete", u, id, "denied") /\ orders' = orders
         ELSE OrderAnswer(r, "complete", u, id, "ok") /\ orders' = completeStatus(orders, id)
  /\ UNCHANGED <<now, stock, cart, orderItems, nextOrderId, tx, members, credits, reports, session, nextExt, ledgerLog, calc>>

\* RefundController.submitReport by user u with a valid form, with its answers
postReport(r, u, id) ==
  /\ Free(r)
  /\ LET found == {o \in CommittedOrders : o.id = id}
         free == {x \in Reports : reports[x].status = "none"}
     IN  IF found = {} THEN OrderAnswer(r, "report", u, id, "not_found") /\ reports' = reports
         ELSE IF ~OwnerOrAdmin(u, CHOOSE o \in found : TRUE)
         THEN OrderAnswer(r, "report", u, id, "denied") /\ reports' = reports
         ELSE /\ free # {}
              /\ OrderAnswer(r, "report", u, id, "ok")
              /\ LET x == CHOOSE y \in free : \A z \in free : y <= z
                     o == CHOOSE y \in found : TRUE
                 IN  reports' = [reports EXCEPT ![x] =
                       [orderId |-> id, userId |-> o.userId, status |-> "pending",
                        refundAmount |-> 0]]
  /\ UNCHANGED <<now, stock, cart, orders, orderItems, nextOrderId, tx, members, credits, session, nextExt, ledgerLog, calc>>

NextAccess ==
  \/ \E r \in Req, u \in Users, id \in 1..MaxOrders : postOrderComplete(r, u, id)
  \/ \E r \in Req, u \in Users, id \in 1..MaxOrders : postReport(r, u, id)

SpecAccess == InitStatus /\ [][NextAccess]_vars

\* C32: a request to complete an order or to report it that comes from a
\* logged-in user who is neither the order's owner nor an admin leaves the
\* order status unchanged and creates no report; so an order becomes
\* completed, and a report is created, only by the owner or an admin
C32_OwnerOrAdminOnly ==
  [][\A r \in Req :
       (reqs[r].kind = "idle" /\ reqs'[r].kind \in {"complete", "report"})
       => \A o \in orders :
            (o.id = reqs'[r].orderId /\ Role(reqs'[r].user) # "admin"
               /\ o.userId # reqs'[r].user)
            => orders' = orders /\ reports' = reports /\ reqs'[r].resp = "denied"]_vars

\* user 2 has asked to complete and to report order 1 of user 1: the order is
\* still processing and there is no report
C32_Witness ==
  /\ \A r \in Req : reqs[r].user = 2 /\ reqs[r].orderId = 1
  /\ \E r, q \in Req : reqs[r].kind = "complete" /\ reqs[q].kind = "report"
  /\ \A o \in orders : o.status = "processing"
  /\ \A x \in Reports : reports[x].status = "none"

\* ------------------------------------------- confirm invoked more than once
\* user 1 initiates a Stripe or a NETS payment and the client invokes confirm
\* for it, possibly twice and at the same time
NextRetry ==
  \/ createStripePaymentIntent(1)
  \/ \E r \in Req : session[1].stripe.id # 0 /\ confirmStripePayment(r, 1, session[1].stripe.id)
  \/ \E r \in Req : stripeDetailsAnswer(r, "succeeded")
  \/ generateQrCode(1)
  \/ \E r \in Req : session[1].nets.id # 0 /\ confirmPayment(r, 1)
  \/ \E r \in Req : netsStatusAnswer(r, "1", "00")
  \/ PersistSteps

SpecRetry == InitPay /\ [][NextRetry]_vars

\* C33: one initiated payment yields at most one order: no two persisted
\* orders carry the same payment intent or NETS transaction, however often
\* and in whatever interleaving confirm is invoked for it
C33_OneOrderPerPayment ==
  \A o1, o2 \in CommittedOrders :
    (o1.ext # 0 /\ o1.ext = o2.ext) => o1.id = o2.id

\* --------------------------------- the cart changes after a payment starts
\* CartController.removeItem: the cart line of product p is deleted
removeItem(u, p) ==
  /\ cart[u][p] > 0
  /\ cart' = [cart EXCEPT ![u][p] = 0]
  /\ UNCHANGED <<now, stock, orders, orderItems, nextOrderId, tx, members, credits, reports, session, nextExt, reqs, ledgerLog, calc>>

\* user 1 initiates PayPal, Stripe and NETS payments, may remove a cart line,
\* and confirms, one request after another
NextSnapshot ==
  \/ createPaypalOrder(1)
  \/ createStripePaymentIntent(1)
  \/ generateQrCode(1)
  \/ \E p \in Products : Quiet /\ removeItem(1, p)
  \/ \E r \in Req : Quiet /\ session[1].paypal.id # 0 /\ capturePaypalOrder(r, 1, session[1].paypal.id)
  \/ \E r \in Req : paypalCaptureAnswer(r, "COMPLETED")
  \/ \E r \in Req : Quiet /\ session[1].stripe.id # 0 /\ confirmStripePayment(r, 1, session[1].stripe.id)
  \/ \E r \in Req : stripeDetailsAnswer(r, "succeeded")
  \/ \E r \in Req : Quiet /\ session[1].nets.id # 0 /\ confirmPayment(r, 1)
  \/ \E r \in Req : netsStatusAnswer(r, "1", "00")
  \/ PersistSteps

SpecSnapshot == InitPay /\ [][NextSnapshot]_vars

\* the pending checkouts held in the sessions
Pendings == UNION {{session[u].paypal, session[u].stripe, session[u].nets} : u \in Users}

\* C34: the totalAmount and the items of an order persisted on confirm are the
\* amount sent to the provider and the cart snapshot taken at initiate, even
\* if the cart changed in between (PayPal, Stripe and NETS)
C34_OrderMatchesInitiate ==
  [][\A o \in orders' \ orders :
       \A pd \in Pendings :
         (pd.id # 0 /\ pd.id = o.ext)
         => /\ o.totalAmount = pd.pay.total
            /\ reqs[tx'.owner].pay.items = pd.pay.items]_vars

\* ----------------------------------- NETS totals against checkout totals
\* C35: for the same cart, order history, refund credit and loyalty
\* redemption in the session, the amount stored for NETS
\* (computeTotals.payableTotal) equals the payableTotal computeCheckoutState
\* gives the card, PayPal and Stripe flows
C35_NetsTotalEqualsCheckoutTotal ==
  \A u \in Users :
    session[u].nets.id # 0 =>
      /\ session[u].paypal.id # 0 => session[u].paypal.pay.total = session[u].nets.pay.total
      /\ session[u].stripe.id # 0 => session[u].stripe.pay.total = session[u].nets.pay.total
      /\ \A r \in Req :
           (reqs[r].kind = "card" /\ reqs[r].user = u /\ reqs[r].pc = "insertOrder")
           => reqs[r].pay.total = session[u].nets.pay.total

\* ------------------------------------------ points taken for a redemption
\* C36: for every persisted order whose payable total was reduced by a
\* redemption of p > 0 points, the finalization of that order debits exactly
\* p points from the user's balance
C36_RedeemedPointsDebited ==
  [][\A r \in Req :
       (reqs[r].pc = "effects" /\ reqs[r].pay.points > 0
          /\ reqs[r].mem \in {"read", "deduct"} /\ reqs'[r].mem \in {"grant", "done"})
       => /\ members[reqs[r].user] # NoRow
          /\ members'[reqs[r].user] = members[reqs[r].user] - reqs[r].pay.points]_vars

\* C37: when an order both redeems points and earns purchase points the
\* balance is changed by one combined net adjustment: every change the
\* order's finalization makes to the balance is the grant minus the debit
C37_NetAdjustment ==
  [][\A r \in Req :
       LET u == reqs[r].user
           grant == reqs[r].pay.total \div 10
       IN  (reqs[r].pc = "effects" /\ reqs[r].memDeduct > 0 /\ grant > 0
              /\ reqs'[r] # reqs[r] /\ members'[u] # members[u])
           => members'[u] = members[u] - reqs[r].memDeduct + grant]_vars

\* --------------------------------------- completed orders and cancellation
\* C38: an order that has reached completed (it is completed, or has got a
\* refund_full or refund_partial status, which only a completed order gets)
\* is never set to cancelled by a refund resolution, also not by a second
\* resolution of the same report
C38_CompletedNeverCancelled ==
  [][\A o \in orders : \A o2 \in orders' :
       (o2.id = o.id /\ o.status \in {"completed", "refund_full", "refund_partial"})
       => o2.status # "cancelled"]_vars

\* ------------------------------------------------- bonus once per report
\* the resolutions of report id that have added bonus points
BonusGrants(id) ==
  {e.req : e \in {x \in ledgerLog : x.op = "bonus" /\ reqs[x.req].rep.id = id}}

\* C39: refund bonus points are granted at most once per refund report:
\* resolving an approved report again adds no bonus a second time
C39_BonusOncePerReport ==
  \A id \in Reports : Cardinality(BonusGrants(id)) <= 1

\* ------------------------------------------- the order of a resolution
\* resolutions one after another, with updateReport or updateStatus failing
NextResolve ==
  \/ \E r \in Req, t \in ResolveTargets, a \in {0, 100}, n \in BOOLEAN :
       Quiet /\ resolveReport(r, 1, t, a, n)
  \/ \E r \in Req : resolveUpdateReport(r)
  \/ \E r \in Req : resolveUpdateReportFail(r)
  \/ \E r \in Req : resolveUpdateStatus(r)
  \/ \E r \in Req : resolveUpdateStatusFail(r)
  \/ \E r \in Req : resolveBonusRead(r)
  \/ \E r \in Req : resolveBonusAdd(r)

SpecResolve == InitRefund /\ [][NextResolve]_vars

StatusUpdates(r) == {e \in ledgerLog : e.op = "updateStatus" /\ e.req = r}

\* C40: in every resolveReport the report update is committed before the
\* order-status update, which is issued before the bonus grant; if the report
\* update fails neither order status nor points change (then or later); if
\* the order-status update fails the report update stays and the bonus grant
\* is still attempted
C40_ResolutionOrder ==
  [][\A r \in Req :
       LET q == reqs[r]
           rp == reports[q.rep.id]
       IN  (q.kind = "resolve" /\ reqs'[r] # q) =>
             /\ (orders' # orders \/ StatusUpdates(r) # {e \in ledgerLog' : e.op = "updateStatus" /\ e.req = r})
                  => rp.status = q.rep.target /\ rp.refundAmount = q.rep.amount
                     /\ members' = members /\ reports' = reports
                     /\ ~\E e \in ledgerLog : e.op = "bonus" /\ e.req = r
             /\ members' # members => StatusUpdates(r) # {} /\ reports' = reports /\ orders' = orders
             /\ reqs'[r].resp = "unable_to_update_report"
                  => /\ reports' = reports /\ orders' = orders /\ members' = members
                     /\ reqs'[r].pc = "done" /\ StatusUpdates(r) = {}
             /\ (\E e \in ledgerLog' \ ledgerLog : e.op = "updateStatus" /\ ~e.ok)
                  => /\ orders' = orders
                     /\ ExpectedBonus(q.rep.target, q.rep.orderTotal) > 0 => reqs'[r].pc = "bonusRead"]_vars

\* the order-status update of an approval failed, the report is approved, the
\* order is as it was and the bonus has been added
C40_Witness ==
  \E r \in Req :
    /\ \E e \in StatusUpdates(r) : ~e.ok
    /\ \E e \in ledgerLog : e.op = "bonus" /\ e.req = r
    /\ reports[1].status = "approved_full"
    /\ \A o \in orders : o.status = "processing"
    /\ members[1] > 0

====
